---- MODULE Spec2Model ----
(***************************************************************************)
(* A model of the cho framework pipeline: the per-module dependency        *)
(* Injector, the graph builder, the compiler (initiate), and the command   *)
(* Linker with its middleware chain.                                       *)
(***************************************************************************)
EXTENDS Integers, Sequences, FiniteSets, TLC

VARIABLES
  \* ---- dependency injection ----
  providers,   \* module -> declared provider list (module metadata)
  imports,     \* module -> declared import list (module metadata)
  registry,    \* module -> serial of its registered Injector object, 0 when none
  created,     \* module -> number of Injector objects ever constructed for it
  cache,       \* module -> token -> cached value (<<>> when absent, <<v>> when present)
  calls,       \* <<module, index>> -> number of invocations of that provider's factory
  returned,    \* module -> token -> set of values resolve(token) returned on that injector
  failed,      \* module -> token -> tokens named by the errors resolve(token) raised
  handed,      \* module -> serials of the Injector objects get / the constructor returned
  rejected,    \* some construction was refused with DuplicateInjectorError
  repeated,    \* some resolve(t) was called again on an injector that had returned t
  inflight,    \* the resolve calls waiting for the promise of a factory, oldest first
  \* ---- graph builder ----
  undecorated, \* the class that carries no decorator metadata ("none" when all do)
  bphase,      \* "idle", "building", "built" or "failed"
  buildError,  \* the error graphBuilder threw
  bstack,      \* the visitModule calls in progress, outermost first
  nodes,       \* the ModuleNode objects constructed so far, by object id
  modulesMap,  \* graphBuilder's memo: module class -> node id, 0 when absent
  \* ---- compiler ----
  cphase,      \* "idle", "compiling" or "compiled"
  cstack,      \* the initiateModule calls in progress, outermost first
  compiled,    \* the InitiatedModule objects constructed so far, by object id
  resolvedMap, \* initiate's memo: module class -> compiled object id, 0 when absent
  instLog,     \* the resolve calls of the compiler and their settling, in order
  \* ---- command line linker ----
  tree,        \* the compiled module tree handed to the Linker, by module class
  linker,      \* the Linker object's fields isMain and containSubs
  app,         \* what Linker.link returned (or threw)
  linkedApps,  \* what the earlier link calls of the same Linker returned
  callLog,     \* the calls made during the dispatch, in call order
  dispatched,  \* the command dispatched ("none" before) and how the dispatch ended
  ran,         \* the argv Application.run was called with and how the run ended
  \* ---- web linker ----
  adapter,     \* which optional endpoint factories the web adapter has
  mounts,      \* the adapter's mount calls made by Linker.link, in call order
  wapp,        \* what the web Linker.link returned (or threw)
  served,      \* the request served ("none" before) and how it ended
  writes,      \* the stream reads and writes of the request, in order
  initiated,   \* whether the middlewares of the tree were normalized, or the error
  mwCall,      \* the normalized middleware called, its next() calls and its error
  \* ---- application life cycle ----
  instances,   \* which hooks the instance of each module and controller implements
  defect,      \* what makes graphBuilder or the compiler throw ("none": nothing)
  life         \* Application.create in progress: its phase, call stack and event log

diVars == <<providers, imports, registry, created, cache, calls,
            returned, failed, handed, rejected, repeated, inflight>>

graphVars == <<undecorated, bphase, buildError, bstack, nodes, modulesMap,
               cphase, cstack, compiled, resolvedMap, instLog>>

cliVars == <<tree, linker, app, linkedApps, callLog, dispatched, ran>>

webVars == <<adapter, mounts, wapp, served, writes, initiated, mwCall>>

lifeVars == <<instances, defect, life>>

vars == <<diVars, graphVars, cliVars, webVars, lifeVars>>

\* ------------------------------------------------------------------------
\* Bounds
\* ------------------------------------------------------------------------
MaxProviders == 3
MaxCalls == 2
MaxImports == 4
MaxStack == 4
MaxMws == 3
MaxMethods == 3
MaxWebMethods == 2
MaxYields == 3
MaxArgv == 3
MaxDeclared == 2
MaxArgs == 2
MaxLinks == 3
MaxPending == 2

\* ------------------------------------------------------------------------
\* Dependency injection: modules, tokens, providers
\* ------------------------------------------------------------------------
Modules == {"A", "B", "C"}
Tokens == {"t", "d"}

\* Provider kinds: the token provided and the tokens the factory resolves
\* through the Resolver it is handed.
Kinds == {"t0", "td", "d0"}
KindToken(k) == IF k = "d0" THEN "d" ELSE "t"
KindDeps(k) == IF k = "td" THEN <<"d">> ELSE <<>>

SeqsUpTo(S, n) == UNION {[1..k -> S] : k \in 0..n}

\* The value of a computation that has one outcome.
Only(S) == CHOOSE x \in S : TRUE

\* Import lists: declared acyclic (A may import B and C, B may import C).
ImportChoices(m) ==
  CASE m = "A" -> {<<"B">>, <<"B", "C">>, <<"C", "B">>}
    [] m = "B" -> {<<>>, <<"C">>}
    [] OTHER -> {<<>>}

ProviderIds == Modules \X (1..MaxProviders)

NoValue == <<>>

\* A value produced by a factory: which provider made it, the invocation
\* number (each invocation builds a fresh instance), and the values the
\* factory obtained from its Resolver.
MkValue(pid, n, deps) == [prov |-> pid, n |-> n, deps |-> deps]

\* The mutable injector state threaded through one operation.
CurState == [registry |-> registry, created |-> created,
             cache |-> cache, calls |-> calls]

HasInjector(S, m) == S.registry[m] # 0

\* new Injector(m): registers the injector for the module identity.
ConstructAlways(S, m) ==
  [ok |-> TRUE,
   S |-> [S EXCEPT !.registry[m] = S.created[m] + 1,
                   !.created[m] = S.created[m] + 1,
                   !.cache[m] = [t \in Tokens |-> NoValue]]]

Construct(S, m) ==
  IF HasInjector(S, m)
    THEN [ok |-> FALSE, S |-> S]          \* DuplicateInjectorError
    ELSE ConstructAlways(S, m)

\* Injector.get(m): the memoized accessor.
Get(S, m) == IF HasInjector(S, m) THEN S ELSE Construct(S, m).S

\* Index of the first provider of module m for token t, 0 when none.
ProviderHits(m, t) ==
  {i \in 1..Len(providers[m]) : KindToken(providers[m][i]) = t}

FindLastProvider(m, t) ==
  IF ProviderHits(m, t) = {} THEN 0
  ELSE CHOOSE i \in ProviderHits(m, t) : \A j \in ProviderHits(m, t) : i >= j

\* providers.find(p => p.provide === t): the first match.
FindProvider(m, t) ==
  IF ProviderHits(m, t) = {} THEN 0
  ELSE CHOOSE i \in ProviderHits(m, t) : \A j \in ProviderHits(m, t) : i <= j

NotFound(S) == [type |-> "not-found", S |-> S]
Resolved(S, v) == [type |-> "resolved", value |-> v, S |-> S]
Found(S, m, i) == [type |-> "provider", owner |-> m, idx |-> i, S |-> S]

RECURSIVE search(_, _, _)
RECURSIVE searchImports(_, _, _)

searchProviderFirst(S, m, t) ==
  IF FindProvider(m, t) # 0 THEN Found(S, m, FindProvider(m, t))
  ELSE IF S.cache[m][t] # NoValue THEN Resolved(S, S.cache[m][t][1])
  ELSE searchImports(S, imports[m], t)

searchLocalOnly(S, m, t) ==
  IF S.cache[m][t] # NoValue THEN Resolved(S, S.cache[m][t][1])
  ELSE IF FindProvider(m, t) # 0 THEN Found(S, m, FindProvider(m, t))
  ELSE NotFound(S)

\* injector.search(t): own cache, then own providers, then each import's
\* injector in declaration order.
search(S, m, t) ==
  IF S.cache[m][t] # NoValue THEN Resolved(S, S.cache[m][t][1])
  ELSE IF FindProvider(m, t) # 0 THEN Found(S, m, FindProvider(m, t))
  ELSE searchImports(S, imports[m], t)

\* The imports part of search: each import's injector is obtained through
\* Injector.get and asked by the same three-step search.
searchImports(S, ims, t) ==
  IF ims = <<>> THEN NotFound(S)
  ELSE LET S1 == Get(S, Head(ims))
           f == search(S1, Head(ims), t)
       IN IF f.type # "not-found" THEN f ELSE searchImports(f.S, Tail(ims), t)

\* The injector whose Resolver view the factory receives.
ResolverOfRequester(requester, owner) == requester
ResolverOf(requester, owner) == owner

\* The injector in whose cache the produced value is stored.
CacheOfRequester(requester, owner) == requester
CacheOf(requester, owner) == owner

StoreNothing(S, m, t, v) == S

\* cache.set(token, value) after the factory resolved
CacheSet(S, m, t, v) == [S EXCEPT !.cache[m][t] = <<v>>]

Fail(S, t) == [ok |-> FALSE, err |-> t, S |-> S]
Ok(S, v) == [ok |-> TRUE, val |-> v, S |-> S]

RECURSIVE resolve(_, _, _)
RECURSIVE resolveAll(_, _, _, _)

\* injector.resolve(t): search, then run the found provider's factory with
\* the owning injector as Resolver, cache the value in the owning injector.
resolve(S, m, t) ==
  LET f == search(S, m, t)
  IN IF f.type = "resolved" THEN Ok(f.S, f.value)
     ELSE IF f.type = "not-found" THEN Fail(f.S, t)   \* ProviderNotFoundError
     ELSE LET pid == <<f.owner, f.idx>>
              S1 == [f.S EXCEPT !.calls[pid] = @ + 1]
              r == resolveAll(S1, ResolverOf(m, f.owner),
                              KindDeps(providers[f.owner][f.idx]), <<>>)
          IN IF ~r.ok THEN Fail(r.S, r.err)
             ELSE LET v == MkValue(pid, S1.calls[pid], r.val)
                  IN Ok(CacheSet(r.S, CacheOf(m, f.owner), t, v), v)

\* The factory body: resolver.resolve(dep) for each dependency, in order.
resolveAll(S, m, deps, acc) ==
  IF deps = <<>> THEN Ok(S, acc)
  ELSE LET r == resolve(S, m, Head(deps))
       IN IF ~r.ok THEN r
          ELSE resolveAll(r.S, m, Tail(deps), Append(acc, r.val))

\* ------------------------------------------------------------------------
\* Dependency injection: operations
\* ------------------------------------------------------------------------
Commit(S) ==
  /\ registry' = S.registry
  /\ created' = S.created
  /\ cache' = S.cache
  /\ calls' = S.calls

\* Every registered injector was returned by get or by the constructor
\* (search obtains the imports' injectors through Injector.get).
Handed(S) == [m \in Modules |->
                IF S.registry[m] # 0 THEN handed[m] \cup {S.registry[m]}
                ELSE handed[m]]

\* new Injector(m)
NewInjector(m) ==
  /\ created[m] < MaxCalls
  /\ LET r == Construct(CurState, m)
     IN /\ Commit(r.S)
        /\ handed' = IF r.ok THEN [handed EXCEPT ![m] = @ \cup {r.S.registry[m]}]
                     ELSE handed
        /\ rejected' = (rejected \/ ~r.ok)
  /\ UNCHANGED <<providers, imports, returned, failed, repeated, inflight>>
  /\ UNCHANGED <<graphVars, cliVars, webVars, lifeVars>>

\* Injector.get(m)
InjectorGet(m) ==
  /\ created[m] < MaxCalls
  /\ LET S == Get(CurState, m)
     IN /\ Commit(S)
        /\ handed' = Handed(S)
  /\ UNCHANGED <<providers, imports, returned, failed, rejected, repeated, inflight>>
  /\ UNCHANGED <<graphVars, cliVars, webVars, lifeVars>>

\* The bookkeeping of one resolve call with outcome r.
Record(m, t, r) ==
  /\ \A pid \in ProviderIds : r.S.calls[pid] <= MaxCalls
  /\ \A x \in Modules : r.S.created[x] <= MaxCalls
  /\ Commit(r.S)
  /\ returned' = IF r.ok THEN [returned EXCEPT ![m][t] = @ \cup {r.val}]
                 ELSE returned
  /\ failed' = IF r.ok THEN failed
               ELSE [failed EXCEPT ![m][t] = @ \cup {r.err}]
  /\ handed' = Handed(r.S)
  /\ repeated' = (repeated \/ (r.ok /\ returned[m][t] # {}))

\* await injector.resolve(t) on an injector of module m obtained earlier
Resolve(m, t) ==
  /\ HasInjector(CurState, m)
  /\ Record(m, t, resolve(CurState, m, t))
  /\ UNCHANGED <<providers, imports, rejected, inflight>>
  /\ UNCHANGED <<graphVars, cliVars, webVars, lifeVars>>

\* await (await Injector.get(m)).resolve(t)
GetResolve(m, t) ==
  /\ Record(m, t, resolve(Get(CurState, m), m, t))
  /\ UNCHANGED <<providers, imports, rejected, inflight>>
  /\ UNCHANGED <<graphVars, cliVars, webVars, lifeVars>>

\* The command names a method can declare; "none" marks a method that is
\* not a command.
Commands == {"main", "x", "y"}

\* errorHandler: undefined
NoErrorHandler == [scope |-> "none", cls |-> "none", method |-> 0, kind |-> "none"]
NoTarget == [cls |-> "none", method |-> 0, kind |-> "none"]
\* commands[command]: undefined
NoHandler == [bound |-> FALSE, handle |-> NoTarget, middlewares |-> <<>>,
              errorHandler |-> NoErrorHandler]

\* A compiled module with no controllers.
EmptyModule == [middlewares |-> <<>>, errorHandler |-> "none", controllers |-> <<>>]

\* { commands: {}, help: {} } before anything is bound
EmptyApp == [status |-> "none", error |-> "none", command |-> "none",
             commands |-> [c \in Commands |-> NoHandler], main |-> NoHandler,
             help |-> [c \in Commands |-> "unset"], helpKey |-> "unset",
             errorHandler |-> "none"]

\* Application.run not called yet.
NoRun == [argv |-> <<>>, out |-> "none", error |-> "none", printed |-> "none",
          invoked |-> <<>>, forwarded |-> <<>>, handled |-> <<>>,
          rejection |-> "none", shutdown |-> FALSE]

\* Nothing linked by the command line linker, nothing dispatched.
CliIdleApp ==
  /\ linker = [isMain |-> FALSE, containSubs |-> FALSE]
  /\ app = EmptyApp
  /\ linkedApps = <<>>
  /\ callLog = <<>>
  /\ dispatched = [command |-> "none", out |-> "none"]
  /\ ran = NoRun

\* No tree linked, nothing dispatched.
CliIdle ==
  /\ tree = [m \in Modules |-> EmptyModule]
  /\ CliIdleApp

\* The adapter's optional factories createStreamEndpoint,
\* createTextStreamEndpoint and createSseEndpoint.
Capabilities == {"stream", "text", "sse"}

NoSite == [cls |-> "none", method |-> 0]

\* No middleware called.
\* No request made.
NotServed ==
  [site |-> NoSite, out |-> "none", error |-> "none", handledBy |-> "none",
   called |-> FALSE, args |-> <<>>]

NoFn == [is |-> "none", implements |-> {}, does |-> "none", verdict |-> FALSE]

NoMwCall == [fn |-> NoFn, nexts |-> 0, error |-> "none"]

\* Application.create not called.
NoLife == [phase |-> "idle", error |-> "none", stack |-> <<>>, inflight |-> {},
           log |-> <<>>]

\* No instance implements a hook, nothing is created.
LifeIdle ==
  /\ instances = [modules |-> [m \in Modules |-> "none"],
                  controllers |-> [m \in Modules |-> "none"]]
  /\ defect = "none"
  /\ life = NoLife

\* No tree linked to an adapter, no request served.
WebIdle ==
  /\ adapter = Capabilities
  /\ mounts = <<>>
  /\ wapp = [status |-> "none", error |-> "none", endpoints |-> {}]
  /\ served = NotServed
  /\ writes = <<>>
  /\ initiated = [status |-> "compiled", error |-> "none"]
  /\ mwCall = NoMwCall

\* Nothing built, nothing compiled.
GraphIdle ==
  /\ undecorated = "none"
  /\ bphase = "idle"
  /\ buildError = [name |-> "none"]
  /\ bstack = <<>>
  /\ nodes = <<>>
  /\ modulesMap = [m \in Modules |-> 0]
  /\ cphase = "idle"
  /\ cstack = <<>>
  /\ compiled = <<>>
  /\ resolvedMap = [m \in Modules |-> 0]
  /\ instLog = <<>>

DIConst ==
  /\ registry = [m \in Modules |-> 0]
  /\ created = [m \in Modules |-> 0]
  /\ cache = [m \in Modules |-> [t \in Tokens |-> NoValue]]
  /\ calls = [pid \in ProviderIds |-> 0]
  /\ returned = [m \in Modules |-> [t \in Tokens |-> {}]]
  /\ failed = [m \in Modules |-> [t \in Tokens |-> {}]]
  /\ handed = [m \in Modules |-> {}]
  /\ rejected = FALSE
  /\ repeated = FALSE
  /\ inflight = <<>>

ImportGraphs ==
  {f \in [Modules -> SeqsUpTo(Modules, 2)] :
     \A m \in Modules : f[m] \in ImportChoices(m)}

\* Module metadata: any declared provider lists with at most MaxProviders
\* providers in all, over any of the import graphs.
DIInit ==
  /\ providers \in {f \in [Modules -> SeqsUpTo(Kinds, MaxProviders)] :
                      Len(f["A"]) + Len(f["B"]) + Len(f["C"]) <= MaxProviders}
  /\ imports \in ImportGraphs
  /\ DIConst
  /\ LifeIdle
  /\ GraphIdle
  /\ CliIdle
  /\ WebIdle

DINext == \E m \in Modules, t \in Tokens : GetResolve(m, t)

SpecDI == DIInit /\ [][DINext]_vars

\* Registry: injectors constructed directly, through the accessor, and
\* lazily by search; each module declares at most one provider.
RegistryInit ==
  /\ providers \in [Modules -> {<<>>, <<"t0">>}]
  /\ imports \in ImportGraphs
  /\ DIConst
  /\ LifeIdle
  /\ GraphIdle
  /\ CliIdle
  /\ WebIdle

RegistryNext ==
  \/ \E m \in Modules : NewInjector(m)
  \/ \E m \in Modules : InjectorGet(m)
  \/ \E m \in Modules, t \in Tokens : Resolve(m, t)

SpecRegistry == RegistryInit /\ [][RegistryNext]_vars

\* ------------------------------------------------------------------------
\* Dependency injection: resolve calls that overlap
\* ------------------------------------------------------------------------
\* A provider of token t whose asynchronous factory resolves nothing itself.
AsyncKinds == {"t0"}

\* A resolve(t) call on the injector of m that invoked the factory of the
\* provider found and waits for its promise; n numbers the invocation.
Waiting(m, t, pid, n) == [m |-> m, t |-> t, prov |-> pid, n |-> n]

Without(q, i) == [j \in 1..(Len(q) - 1) |-> IF j < i THEN q[j] ELSE q[j + 1]]

\* injector.resolve(t) up to its first suspension: a cached value is
\* returned, a missing provider is reported, else the factory of the
\* provider found is invoked and the call waits for the promise.
ResolveCall(m, t) ==
  /\ Len(inflight) < MaxPending
  /\ LET f == search(Get(CurState, m), m, t)
     IN /\ \A x \in Modules : f.S.created[x] <= MaxCalls
        /\ handed' = Handed(f.S)
        /\ IF f.type = "resolved"
             THEN /\ Commit(f.S)
                  /\ returned' = [returned EXCEPT ![m][t] = @ \cup {f.value}]
                  /\ repeated' = (repeated \/ returned[m][t] # {})
                  /\ UNCHANGED <<failed, inflight>>
           ELSE IF f.type = "not-found"
             THEN /\ Commit(f.S)
                  /\ failed' = [failed EXCEPT ![m][t] = @ \cup {t}]
                  /\ UNCHANGED <<returned, repeated, inflight>>
           ELSE LET pid == <<f.owner, f.idx>>
                IN /\ f.S.calls[pid] < MaxCalls
                   /\ Commit([f.S EXCEPT !.calls[pid] = @ + 1])
                   /\ inflight' = Append(inflight,
                                         Waiting(m, t, pid, f.S.calls[pid] + 1))
                   /\ UNCHANGED <<returned, failed, repeated>>
  /\ UNCHANGED <<providers, imports, rejected>>
  /\ UNCHANGED <<graphVars, cliVars, webVars, lifeVars>>

\* The promise of a factory settles: the waiting resolve call stores the
\* value in the cache of the owning injector and returns it.
ResolveSettle(i) ==
  /\ i \in DOMAIN inflight
  /\ LET c == inflight[i]
         v == MkValue(c.prov, c.n, <<>>)
     IN /\ Commit(CacheSet(CurState, CacheOf(c.m, c.prov[1]), c.t, v))
        /\ returned' = [returned EXCEPT ![c.m][c.t] = @ \cup {v}]
        /\ repeated' = (repeated \/ returned[c.m][c.t] # {})
        /\ inflight' = Without(inflight, i)
  /\ UNCHANGED <<providers, imports, failed, handed, rejected>>
  /\ UNCHANGED <<graphVars, cliVars, webVars, lifeVars>>

\* Module metadata: each module declares at most one provider.
OverlapInit ==
  /\ providers \in [Modules -> SeqsUpTo(AsyncKinds, 1)]
  /\ imports \in ImportGraphs
  /\ DIConst
  /\ LifeIdle
  /\ GraphIdle
  /\ CliIdle
  /\ WebIdle

OverlapNext ==
  \/ \E m \in {"A", "B"}, t \in Tokens : ResolveCall(m, t)
  \/ \E i \in 1..MaxPending : ResolveSettle(i)

SpecOverlap == OverlapInit /\ [][OverlapNext]_vars

\* ------------------------------------------------------------------------
\* Graph builder
\* ------------------------------------------------------------------------
Root == "A"

\* meta.controllers of each module class
Controllers(m) ==
  CASE m = "A" -> <<"KA">>
    [] m = "B" -> <<"KB">>
    [] OTHER -> <<>>

Classes == Modules \cup {"KA", "KB"}

\* readMetadataObject(ctr) with isModule / isGateway set
Decorated(c) == c # undecorated

\* modules.has(ctr)
NeverMemoized(memo, c) == FALSE
Memoized(memo, c) == memo[c] # 0

NotAModule(c) == [name |-> "Error", message |-> "is not a module", class |-> c]
NotAController(c) == [name |-> "Error", message |-> "is not a controller", class |-> c]
\* the engine's "Maximum call stack size exceeded"
StackOverflow == [name |-> "RangeError"]

BFrame(c) == [ctr |-> c, kids |-> <<>>]

BuildFail(e) ==
  /\ bphase' = "failed"
  /\ buildError' = e
  /\ bstack' = <<>>
  /\ UNCHANGED <<nodes, modulesMap>>

\* visitModule(c) entered with `depth` calls in progress: a memo hit returns
\* the node at once, a class without module metadata throws, otherwise the
\* call goes on to visit c's imports (and overflows a full call stack).
VisitModule(depth, c) ==
  IF Memoized(modulesMap, c) THEN [does |-> "return", id |-> modulesMap[c]]
  ELSE IF ~Decorated(c) THEN [does |-> "throw", error |-> NotAModule(c)]
  ELSE IF depth >= MaxStack THEN [does |-> "throw", error |-> StackOverflow]
  ELSE [does |-> "visit"]

\* graphBuilder(Root)
BuildStart ==
  /\ bphase = "idle"
  /\ LET v == VisitModule(0, Root)
     IN IF v.does = "throw" THEN BuildFail(v.error)
        ELSE /\ bstack' = <<BFrame(Root)>>
             /\ bphase' = "building"
             /\ UNCHANGED <<buildError, nodes, modulesMap>>
  /\ UNCHANGED <<undecorated, cphase, cstack, compiled, resolvedMap, instLog>>
  /\ UNCHANGED <<diVars, cliVars, webVars, lifeVars>>

\* (meta.imports ?? []).map(visitModule): the next import of the innermost call
BuildVisit ==
  /\ bphase = "building"
  /\ LET n == Len(bstack)
         top == bstack[n]
         k == Len(top.kids) + 1
     IN /\ k <= Len(imports[top.ctr])
        /\ LET v == VisitModule(n, imports[top.ctr][k])
           IN CASE v.does = "throw" -> BuildFail(v.error)
                [] v.does = "return" ->
                     /\ bstack' = [bstack EXCEPT ![n].kids = Append(@, v.id)]
                     /\ UNCHANGED <<bphase, buildError, nodes, modulesMap>>
                [] OTHER ->
                     /\ bstack' = Append(bstack, BFrame(imports[top.ctr][k]))
                     /\ UNCHANGED <<bphase, buildError, nodes, modulesMap>>
  /\ UNCHANGED <<undecorated, cphase, cstack, compiled, resolvedMap, instLog>>
  /\ UNCHANGED <<diVars, cliVars, webVars, lifeVars>>

\* The imports are visited: visit the controllers, build the node, memoize
\* it and return it to the calling visitModule (or to graphBuilder's caller).
BuildReturn ==
  /\ bphase = "building"
  /\ LET n == Len(bstack)
         top == bstack[n]
         bad == {i \in 1..Len(Controllers(top.ctr)) :
                   ~Decorated(Controllers(top.ctr)[i])}
         id == Len(nodes) + 1
         node == [ctr |-> top.ctr, imports |-> top.kids,
                  controllers |-> Controllers(top.ctr)]
     IN /\ Len(top.kids) = Len(imports[top.ctr])
        /\ IF bad # {}
             THEN BuildFail(NotAController(
                    Controllers(top.ctr)[CHOOSE i \in bad : \A j \in bad : i <= j]))
             ELSE /\ nodes' = Append(nodes, node)
                  /\ modulesMap' = [modulesMap EXCEPT ![top.ctr] = id]
                  /\ buildError' = buildError
                  /\ IF n = 1
                       THEN /\ bstack' = <<>>
                            /\ bphase' = "built"
                       ELSE /\ bstack' = [SubSeq(bstack, 1, n - 1)
                                            EXCEPT ![n - 1].kids = Append(@, id)]
                            /\ bphase' = bphase
  /\ UNCHANGED <<undecorated, cphase, cstack, compiled, resolvedMap, instLog>>
  /\ UNCHANGED <<diVars, cliVars, webVars, lifeVars>>

\* The node graphBuilder returned (the last one built).
RootNode == Len(nodes)

\* ------------------------------------------------------------------------
\* Compiler: initiate(root)
\* ------------------------------------------------------------------------
CFrame(id) == [node |-> id, pc |-> "get", ctrls |-> <<>>, imps |-> <<>>]

\* resolved.has(node.ctr)
Initiated(memo, c) == memo[c] # 0

\* initiate(graphBuilder(Root)): the first initiateModule call
CompileStart ==
  /\ bphase = "built"
  /\ cphase = "idle"
  /\ cphase' = "compiling"
  /\ cstack' = <<CFrame(RootNode)>>
  /\ UNCHANGED <<undecorated, bphase, buildError, bstack, nodes, modulesMap,
                 compiled, resolvedMap, instLog>>
  /\ UNCHANGED <<diVars, cliVars, webVars, lifeVars>>

\* const injector = await Injector.get(node.ctr)
CompileGet ==
  /\ cphase = "compiling"
  /\ LET n == Len(cstack)
         m == nodes[cstack[n].node].ctr
         S == Get(CurState, m)
     IN /\ cstack[n].pc = "get"
        /\ Commit(S)
        /\ handed' = Handed(S)
        /\ cstack' = [cstack EXCEPT ![n].pc = "resolve"]
  /\ UNCHANGED <<providers, imports, returned, failed, rejected, repeated, inflight>>
  /\ UNCHANGED <<undecorated, bphase, buildError, bstack, nodes, modulesMap,
                 cphase, compiled, resolvedMap, instLog>>
  /\ UNCHANGED <<cliVars, webVars, lifeVars>>

\* An entry of the log: resolve(cls) was called, or its promise settled.
Resolving(ev, kind, cls) == [ev |-> ev, kind |-> kind, cls |-> cls]

\* await: initiateModule goes on once the promise it waits for has settled.
NeverPending(f) == FALSE
Pending(f) == f.pc \in {"resolving", "controller"}

\* injector.resolve(node.ctr) called: the module's constructor or factory runs
CompileResolve ==
  /\ cphase = "compiling"
  /\ LET n == Len(cstack)
     IN /\ cstack[n].pc = "resolve"
        /\ instLog' = Append(instLog,
                             Resolving("call", "module", nodes[cstack[n].node].ctr))
        /\ cstack' = [cstack EXCEPT ![n].pc = "resolving"]
  /\ UNCHANGED <<undecorated, bphase, buildError, bstack, nodes, modulesMap,
                 cphase, compiled, resolvedMap>>
  /\ UNCHANGED <<diVars, cliVars, webVars, lifeVars>>

\* const handle = await injector.resolve(node.ctr): the promise settled
CompileResolved ==
  /\ cphase = "compiling"
  /\ LET n == Len(cstack)
     IN /\ cstack[n].pc = "resolving"
        /\ instLog' = Append(instLog,
                             Resolving("settle", "module", nodes[cstack[n].node].ctr))
        /\ cstack' = [cstack EXCEPT ![n].pc = "children"]
  /\ UNCHANGED <<undecorated, bphase, buildError, bstack, nodes, modulesMap,
                 cphase, compiled, resolvedMap>>
  /\ UNCHANGED <<diVars, cliVars, webVars, lifeVars>>

\* initiateController(cn, injector) called for the next controller, in
\* declared order: injector.register(node.ctr).resolve(node.ctr) runs
CompileController ==
  /\ cphase = "compiling"
  /\ LET n == Len(cstack)
         top == cstack[n]
         k == Len(top.ctrls) + 1
     IN /\ top.pc \in {"children", "controller"}
        /\ ~Pending(top)
        /\ k <= Len(nodes[top.node].controllers)
        /\ instLog' = Append(instLog,
                             Resolving("call", "controller", nodes[top.node].controllers[k]))
        /\ cstack' = [cstack EXCEPT ![n].ctrls =
                                       Append(@, nodes[top.node].controllers[k]),
                                     ![n].pc = "controller"]
  /\ UNCHANGED <<undecorated, bphase, buildError, bstack, nodes, modulesMap,
                 cphase, compiled, resolvedMap>>
  /\ UNCHANGED <<diVars, cliVars, webVars, lifeVars>>

\* controllers.push(await initiateController(cn, injector)): the promise of
\* the controller called last settled
CompileControllerDone ==
  /\ cphase = "compiling"
  /\ LET n == Len(cstack)
         top == cstack[n]
     IN /\ top.pc = "controller"
        /\ instLog' = Append(instLog,
                             Resolving("settle", "controller", top.ctrls[Len(top.ctrls)]))
        /\ cstack' = [cstack EXCEPT ![n].pc = "children"]
  /\ UNCHANGED <<undecorated, bphase, buildError, bstack, nodes, modulesMap,
                 cphase, compiled, resolvedMap>>
  /\ UNCHANGED <<diVars, cliVars, webVars, lifeVars>>

\* imports.push(await initiateModule(mn)), in declared order, after the
\* controllers: a module already initiated is returned from the memo.
CompileImport ==
  /\ cphase = "compiling"
  /\ LET n == Len(cstack)
         top == cstack[n]
         k == Len(top.imps) + 1
     IN /\ top.pc \in {"children", "controller"}
        /\ ~Pending(top)
        /\ Len(top.ctrls) = Len(nodes[top.node].controllers)
        /\ k <= Len(nodes[top.node].imports)
        /\ LET child == nodes[top.node].imports[k]
           IN IF Initiated(resolvedMap, nodes[child].ctr)
                THEN cstack' = [cstack EXCEPT ![n].imps =
                                  Append(@, resolvedMap[nodes[child].ctr])]
                ELSE cstack' = Append(cstack, CFrame(child))
  /\ UNCHANGED <<undecorated, bphase, buildError, bstack, nodes, modulesMap,
                 cphase, compiled, resolvedMap, instLog>>
  /\ UNCHANGED <<diVars, cliVars, webVars, lifeVars>>

\* new InitiatedModule(...); resolved.set(node.ctr, initiated); return it
CompileFinish ==
  /\ cphase = "compiling"
  /\ LET n == Len(cstack)
         top == cstack[n]
         id == Len(compiled) + 1
         obj == [ctr |-> nodes[top.node].ctr, node |-> top.node,
                 controllers |-> top.ctrls, imports |-> top.imps]
     IN /\ top.pc = "children"
        /\ Len(top.ctrls) = Len(nodes[top.node].controllers)
        /\ Len(top.imps) = Len(nodes[top.node].imports)
        /\ compiled' = Append(compiled, obj)
        /\ resolvedMap' = [resolvedMap EXCEPT ![obj.ctr] = id]
        /\ IF n = 1
             THEN /\ cstack' = <<>>
                  /\ cphase' = "compiled"
             ELSE /\ cstack' = [SubSeq(cstack, 1, n - 1)
                                  EXCEPT ![n - 1].imps = Append(@, id)]
                  /\ cphase' = cphase
  /\ UNCHANGED <<undecorated, bphase, buildError, bstack, nodes, modulesMap, instLog>>
  /\ UNCHANGED <<diVars, cliVars, webVars, lifeVars>>

\* Module metadata for the graph: any import lists, cyclic ones and repeated
\* entries included, with at most MaxImports entries in all; at most one
\* class lacks its decorator.
GraphInit ==
  /\ imports \in {f \in [Modules -> SeqsUpTo(Modules, MaxImports)] :
                    Len(f["A"]) + Len(f["B"]) + Len(f["C"]) <= MaxImports}
  /\ providers = [m \in Modules |-> <<>>]
  /\ DIConst
  /\ LifeIdle
  /\ undecorated \in Classes \cup {"none"}
  /\ bphase = "idle"
  /\ buildError = [name |-> "none"]
  /\ bstack = <<>>
  /\ nodes = <<>>
  /\ modulesMap = [m \in Modules |-> 0]
  /\ cphase = "idle"
  /\ cstack = <<>>
  /\ compiled = <<>>
  /\ resolvedMap = [m \in Modules |-> 0]
  /\ instLog = <<>>
  /\ CliIdle
  /\ WebIdle

GraphNext ==
  \/ BuildStart
  \/ BuildVisit
  \/ BuildReturn
  \/ CompileStart
  \/ CompileGet
  \/ CompileResolve
  \/ CompileResolved
  \/ CompileController
  \/ CompileControllerDone
  \/ CompileImport
  \/ CompileFinish

SpecGraph == GraphInit /\ [][GraphNext]_vars

\* ------------------------------------------------------------------------
\* Command line linker
\* ------------------------------------------------------------------------
\* What a middleware does when called: "pass" awaits next() and returns,
\* "skip" returns without calling next(), "throw" throws before calling it.
MwKinds == {"pass", "skip", "throw"}
\* What the endpoint's method does when called.
HandleKinds == {"ok", "throw"}
\* What an error handler does when called ("none": not defined).
ErrorHandlerKinds == {"none", "ok"}

\* The n-th middleware of a module, controller or method, as a function value.
Mw(scope, cls, method, n, kind) ==
  [scope |-> scope, cls |-> cls, method |-> method, n |-> n, kind |-> kind]

\* The middleware list of a scope from the behaviours declared for it.
MwList(scope, cls, method, kinds) ==
  [n \in 1..Len(kinds) |-> Mw(scope, cls, method, n, kinds[n])]

\* A compiled method.
Method(cls, k, command, mwKinds, errorHandler, handleKind) ==
  [command |-> command, help |-> "",
   middlewares |-> MwList("method", cls, k, mwKinds),
   errorHandler |-> errorHandler,
   handle |-> [cls |-> cls, method |-> k, kind |-> handleKind]]

\* A compiled controller.
Controller(cls, mwKinds, errorHandler, methods) ==
  [cls |-> cls, help |-> "", middlewares |-> MwList("controller", cls, 0, mwKinds),
   errorHandler |-> errorHandler, methods |-> methods]

\* A compiled module.
Module(cls, mwKinds, errorHandler, controllers) ==
  [middlewares |-> MwList("module", cls, 0, mwKinds),
   errorHandler |-> errorHandler, controllers |-> controllers]

ResolveOutermostFirst(m, cm, cc, k) ==
  IF cm.errorHandler # "none"
    THEN [scope |-> "module", cls |-> m, method |-> 0, kind |-> cm.errorHandler]
  ELSE IF cc.errorHandler # "none"
    THEN [scope |-> "controller", cls |-> cc.cls, method |-> 0,
          kind |-> cc.errorHandler]
  ELSE IF cc.methods[k].errorHandler # "none"
    THEN [scope |-> "method", cls |-> cc.cls, method |-> k,
          kind |-> cc.methods[k].errorHandler]
  ELSE NoErrorHandler

\* endpoint.errorHandler ?? cc.errorHandler ?? cm.errorHandler
ResolveErrorHandler(m, cm, cc, k) ==
  IF cc.methods[k].errorHandler # "none"
    THEN [scope |-> "method", cls |-> cc.cls, method |-> k,
          kind |-> cc.methods[k].errorHandler]
  ELSE IF cc.errorHandler # "none"
    THEN [scope |-> "controller", cls |-> cc.cls, method |-> 0,
          kind |-> cc.errorHandler]
  ELSE IF cm.errorHandler # "none"
    THEN [scope |-> "module", cls |-> m, method |-> 0, kind |-> cm.errorHandler]
  ELSE NoErrorHandler

\* [...moduleMiddlewares, ...gatewayMiddlewares, ...(endpoint.middlewares ?? [])]
ChainInnerFirst(cm, cc, ep) == ep.middlewares \o cc.middlewares \o cm.middlewares
Chain(cm, cc, ep) == cm.middlewares \o cc.middlewares \o ep.middlewares

\* linkHandler(handler, middlewares, errorHandler): the closure it returns
linkHandler(handle, middlewares, errorHandler) ==
  [bound |-> TRUE, handle |-> handle, middlewares |-> middlewares,
   errorHandler |-> errorHandler]

Threw(L) == L.app.status = "failed"

\* throw new Error(...)
Throw(L, error, command) ==
  [L EXCEPT !.app.status = "failed", !.app.error = error, !.app.command = command]

\* A member every object literal inherits from Object.prototype.
ObjectPrototype == {"toString"}

\* Object.prototype.toString, found where a handler is looked up.
Builtin == [bound |-> TRUE,
            handle |-> [cls |-> "Object.prototype", method |-> 0, kind |-> "ok"],
            middlewares |-> <<>>, errorHandler |-> NoErrorHandler]

\* commands[key] on the object literal `commands`: the handler bound under
\* the key, else what the key inherits, else undefined.
Lookup(commands, key) ==
  IF key \in DOMAIN commands /\ commands[key].bound THEN commands[key]
  ELSE IF key \in ObjectPrototype THEN Builtin
  ELSE NoHandler

\* if (commands[command])
NeverBound(L, command) == FALSE
AlreadyBound(L, command) == Lookup(L.app.commands, command).bound

\* command === "main" && this.containSubs
MainAfterSubs(L, command) == command = "main" /\ L.linker.containSubs

\* command !== "main" && this.isMain
NeverConflicts(L, command) == FALSE
SubAfterMain(L, command) == command # "main" /\ L.linker.isMain

\* The body of the loop over cc.methods, for method k of controller c of
\* module m: skip a method that is no command, refuse a command name bound
\* before and a mix of main and sub-commands, else bind the linked handler.
Bind(L, m, c, k) ==
  LET cm == tree[m]
      cc == cm.controllers[c]
      endpoint == cc.methods[k]
      command == endpoint.command
      handler == linkHandler(endpoint.handle, Chain(cm, cc, endpoint),
                             ResolveErrorHandler(m, cm, cc, k))
  IN IF command = "none" THEN L
     ELSE IF AlreadyBound(L, command)
       THEN Throw(L, "already exists", command)
     ELSE IF MainAfterSubs(L, command)
       THEN Throw(L, "Cannot have 'main' command when subcommands exist", command)
     ELSE IF SubAfterMain(L, command)
       THEN Throw(L, "Cannot have subcommands when 'main' command exists", command)
     ELSE IF command = "main"
       THEN [L EXCEPT !.app.help[command] = endpoint.help,
                      !.linker.isMain = TRUE,
                      !.app.main = handler]
     ELSE [L EXCEPT !.app.help[command] = endpoint.help,
                    !.linker.containSubs = TRUE,
                    !.app.commands[command] = handler]

RECURSIVE applyMethods(_, _, _, _)
RECURSIVE applyControllers(_, _, _)
RECURSIVE applyImports(_, _, _)
RECURSIVE apply(_, _)

\* for (const endpoint of cc.methods)
applyMethods(L, m, c, k) ==
  IF Threw(L) \/ k > Len(tree[m].controllers[c].methods) THEN L
  ELSE applyMethods(Bind(L, m, c, k), m, c, k + 1)

\* for (const cc of cm.controllers): the controller's help becomes the global
\* help when none is set, then its methods are bound
applyControllers(L, m, c) ==
  IF Threw(L) \/ c > Len(tree[m].controllers) THEN L
  ELSE LET cc == tree[m].controllers[c]
           L1 == IF cc.help # "" /\ L.app.helpKey = "unset"
                   THEN [L EXCEPT !.app.helpKey = cc.help]
                   ELSE L
       IN applyControllers(applyMethods(L1, m, c, 1), m, c + 1)

\* for (const im of cm.imports) app = this.apply(im, app)
applyImports(L, m, i) ==
  IF Threw(L) \/ i > Len(imports[m]) THEN L
  ELSE applyImports(apply(L, imports[m][i]), m, i + 1)

\* Linker.apply(cm, app): the module's own controllers, then its imports
apply(L, m) == applyImports(applyControllers(L, m, 1), m, 1)

\* this.isMain = false; this.containSubs = false
ResetNothing(l) == l
Reset(l) == [l EXCEPT !.isMain = FALSE, !.containSubs = FALSE]

\* Linker.link(cm) on the compiled root
Link ==
  /\ app.status = "none"
  /\ LET L == apply([linker |-> Reset(linker),
                     app |-> [EmptyApp EXCEPT !.errorHandler = tree[Root].errorHandler]],
                    Root)
     IN /\ linker' = L.linker
        /\ app' = IF Threw(L) THEN L.app ELSE [L.app EXCEPT !.status = "linked"]
  /\ UNCHANGED <<tree, linkedApps, callLog, dispatched, ran>>
  /\ UNCHANGED <<diVars, graphVars, webVars, lifeVars>>

\* The call of a middleware, of the endpoint's method or of an error handler,
\* as the call log records it.
CallOf(what, f) ==
  [call |-> what, scope |-> IF what = "handler" THEN "method" ELSE f.scope,
   cls |-> f.cls, method |-> f.method, n |-> IF what = "middleware" THEN f.n ELSE 0]

Logged(D, c) == [D EXCEPT !.log = Append(@, c)]
Returns(D) == [D EXCEPT !.out = "ok"]
Throws(D) == [D EXCEPT !.out = "throw"]

RECURSIVE next(_, _, _)
RECURSIVE callMiddleware(_, _, _)

\* await mw(ctx, next)
callMiddleware(h, D, mw) ==
  LET D1 == Logged(D, CallOf("middleware", mw))
  IN CASE mw.kind = "pass" -> next(h, D1, FALSE)
       [] mw.kind = "skip" -> Returns(D1)
       [] mw.kind = "twice" ->
            \* await next(); await next(): the first result is used twice
            Only({IF r.out = "throw" THEN r ELSE next(h, r, FALSE) :
                  r \in {next(h, D1, FALSE)}})
       [] OTHER -> Throws(D1)

\* await handler(ctx)
callHandler(h, D) ==
  LET D1 == Logged(D, CallOf("handler", h.handle))
  IN IF h.handle.kind = "ok" THEN Returns(D1) ELSE Throws(D1)

\* next(e): with an error, hand it to the error handler or rethrow it; else
\* run the next middleware, or the handler once all middlewares have run,
\* and feed what they throw to next(err).
next(h, D, e) ==
  IF e
    THEN IF h.errorHandler.kind = "none" THEN Throws(D)
         ELSE IF h.errorHandler.kind = "throw"
           THEN Throws(Logged(D, CallOf("errorHandler", h.errorHandler)))
         ELSE Returns(Logged(D, CallOf("errorHandler", h.errorHandler)))
  ELSE IF D.i < Len(h.middlewares)
    THEN LET r == callMiddleware(h, [D EXCEPT !.i = @ + 1], h.middlewares[D.i + 1])
         IN IF r.out = "throw" THEN next(h, r, TRUE) ELSE r
  ELSE LET r == callHandler(h, D)
       IN IF r.out = "throw" THEN next(h, r, TRUE) ELSE r

\* The linked handler of a command: let i = 0; await next()
Dispatch(command) ==
  /\ app.status = "linked"
  /\ dispatched.command = "none"
  /\ LET h == IF command = "main" THEN app.main ELSE app.commands[command]
     IN /\ h.bound
        /\ LET r == next(h, [i |-> 0, log |-> <<>>, out |-> "ok"], FALSE)
           IN /\ callLog' = r.log
              /\ dispatched' = [command |-> command,
                                out |-> IF r.out = "ok" THEN "resolved" ELSE "rejected"]
  /\ UNCHANGED <<tree, linker, app, linkedApps, ran>>
  /\ UNCHANGED <<diVars, graphVars, webVars, lifeVars>>

\* Up to MaxMws middleware behaviours spread over module, controller, method.
MwSplits ==
  UNION {{<<SubSeq(q, 1, cut[1]), SubSeq(q, cut[1] + 1, cut[2]),
            SubSeq(q, cut[2] + 1, Len(q))>> :
            cut \in {x \in [1..2 -> 0..Len(q)] : x[1] <= x[2]}} :
         q \in SeqsUpTo(MwKinds, MaxMws)}

\* The compiled trees linked: root module A with one controller and one
\* command; A may import B, whose controller declares one method.
CliTrees ==
  {[m \in Modules |->
      CASE m = "A" ->
             Module("A", d[1], t[1],
                    <<Controller("KA", d[2], t[2],
                                 <<Method("KA", 1, t[4], d[3], t[3], t[5])>>)>>)
        [] m = "B" ->
             Module("B", <<>>, "none",
                    <<Controller("KB", <<>>, "none",
                                 <<Method("KB", 1, t[6], <<>>, "none", "ok")>>)>>)
        [] OTHER -> EmptyModule] :
     d \in MwSplits,
     t \in ErrorHandlerKinds \X ErrorHandlerKinds \X ErrorHandlerKinds
             \X {"main", "x"} \X HandleKinds \X (Commands \cup {"none"})}

CliInit ==
  /\ tree \in CliTrees
  /\ imports \in {[m \in Modules |-> IF m = "A" THEN i ELSE <<>>] : i \in {<<>>, <<"B">>}}
  /\ providers = [m \in Modules |-> <<>>]
  /\ DIConst
  /\ LifeIdle
  /\ GraphIdle
  /\ WebIdle
  /\ linker = [isMain |-> FALSE, containSubs |-> FALSE]
  /\ app = EmptyApp
  /\ linkedApps = <<>>
  /\ callLog = <<>>
  /\ dispatched = [command |-> "none", out |-> "none"]
  /\ ran = NoRun

CliNext ==
  \/ Link
  \/ \E command \in Commands : Dispatch(command)

SpecCli == CliInit /\ [][CliNext]_vars

\* What a middleware of a chain may do: as above, or call next() a second
\* time once the first call returned ("twice").
ChainKinds == MwKinds \cup {"twice"}

\* What the error handler of a chain may do: as above, or throw itself.
ChainErrorHandlerKinds == ErrorHandlerKinds \cup {"throw"}

\* Trees with one command, whose method declares the whole chain.
ChainTrees ==
  {[m \in Modules |->
      IF m = "A"
        THEN Module("A", <<>>, "none",
                    <<Controller("KA", <<>>, "none",
                                 <<Method("KA", 1, t[1], d, t[2], t[3])>>)>>)
        ELSE EmptyModule] :
     d \in SeqsUpTo(ChainKinds, MaxMws),
     t \in {"main", "x"} \X ChainErrorHandlerKinds \X HandleKinds}

ChainInit ==
  /\ tree \in ChainTrees
  /\ imports = [m \in Modules |-> <<>>]
  /\ providers = [m \in Modules |-> <<>>]
  /\ DIConst
  /\ LifeIdle
  /\ GraphIdle
  /\ WebIdle
  /\ linker = [isMain |-> FALSE, containSubs |-> FALSE]
  /\ app = EmptyApp
  /\ linkedApps = <<>>
  /\ callLog = <<>>
  /\ dispatched = [command |-> "none", out |-> "none"]
  /\ ran = NoRun

ChainNext ==
  \/ Link
  \/ \E command \in {"main", "x"} : Dispatch(command)

SpecChain == ChainInit /\ [][ChainNext]_vars

\* What the one middleware of a module does, if the module declares one.
ImportMwKinds == {<<>>, <<"pass">>, <<"throw">>}

\* Trees where the root module A declares no command and imports B, whose
\* controller declares the one command; both modules may declare a
\* middleware and an error handler.
ImportTrees ==
  {[m \in Modules |->
      CASE m = "A" -> Module("A", d[1], t[1], <<>>)
        [] m = "B" ->
             Module("B", d[2], t[2],
                    <<Controller("KB", <<>>, "none",
                                 <<Method("KB", 1, t[3], <<>>, "none", t[4])>>)>>)
        [] OTHER -> EmptyModule] :
     d \in ImportMwKinds \X ImportMwKinds,
     t \in ErrorHandlerKinds \X ErrorHandlerKinds \X {"main", "x"} \X HandleKinds}

ImportInit ==
  /\ tree \in ImportTrees
  /\ imports = [m \in Modules |-> IF m = "A" THEN <<"B">> ELSE <<>>]
  /\ providers = [m \in Modules |-> <<>>]
  /\ DIConst
  /\ LifeIdle
  /\ GraphIdle
  /\ WebIdle
  /\ CliIdleApp
  /\ dispatched = [command |-> "none", out |-> "none"]
  /\ ran = NoRun

ImportNext ==
  \/ Link
  \/ \E command \in {"main", "x"} : Dispatch(command)

SpecImport == ImportInit /\ [][ImportNext]_vars

\* ------------------------------------------------------------------------
\* Command line linker: linking trees of commands
\* ------------------------------------------------------------------------
\* The methods of a controller from the commands they declare.
Methods(cls, commands) ==
  [k \in 1..Len(commands) |-> Method(cls, k, commands[k], <<>>, "none", "ok")]

\* What the methods of the controllers KA (up to two methods), KA2, KB and KC
\* (up to one each) declare: a command name, or "none" for a method that is
\* not a command; at most MaxMethods methods in all.
Declarations ==
  {q \in SeqsUpTo(Commands \cup {"none"}, 2) \X SeqsUpTo(Commands \cup {"none"}, 1)
           \X SeqsUpTo(Commands \cup {"none"}, 1) \X SeqsUpTo(Commands \cup {"none"}, 1) :
     Len(q[1]) + Len(q[2]) + Len(q[3]) + Len(q[4]) <= MaxMethods}

\* Compiled trees of commands: A holds the controllers KA and KA2, B holds
\* KB and C holds KC.
LinkTrees ==
  {[m \in Modules |->
      CASE m = "A" ->
             Module("A", <<>>, "none",
                    <<Controller("KA", <<>>, "none", Methods("KA", q[1])),
                      Controller("KA2", <<>>, "none", Methods("KA2", q[2]))>>)
        [] m = "B" ->
             Module("B", <<>>, "none",
                    <<Controller("KB", <<>>, "none", Methods("KB", q[3]))>>)
        [] OTHER ->
             Module("C", <<>>, "none",
                    <<Controller("KC", <<>>, "none", Methods("KC", q[4]))>>)] :
     q \in Declarations}

\* The compiled imports: a module is compiled once and may be imported over
\* several paths or listed twice.
LinkImports ==
  {[m \in Modules |-> CASE m = "A" -> a [] m = "B" -> b [] OTHER -> <<>>] :
     a \in {<<>>, <<"B">>, <<"C">>, <<"B", "C">>, <<"C", "B">>, <<"B", "B">>},
     b \in {<<>>, <<"C">>}}

LinkInit ==
  /\ tree \in LinkTrees
  /\ imports \in LinkImports
  /\ providers = [m \in Modules |-> <<>>]
  /\ DIConst
  /\ LifeIdle
  /\ GraphIdle
  /\ WebIdle
  /\ linker = [isMain |-> FALSE, containSubs |-> FALSE]
  /\ app = EmptyApp
  /\ linkedApps = <<>>
  /\ callLog = <<>>
  /\ dispatched = [command |-> "none", out |-> "none"]
  /\ ran = NoRun

LinkNext == Link

SpecLink == LinkInit /\ [][LinkNext]_vars

\* What the methods of the one controller of a module handed to link
\* declare: main only, sub-commands only, nothing, or declarations link
\* refuses.
RelinkDeclarations ==
  {<<>>, <<"main">>, <<"x">>, <<"x", "y">>, <<"main", "x">>, <<"y", "y">>}

RelinkTrees ==
  {[m \in Modules |->
      IF m = "A"
        THEN Module("A", <<>>, "none",
                    <<Controller("KA", <<>>, "none", Methods("KA", q))>>)
        ELSE EmptyModule] :
     q \in RelinkDeclarations}

\* The caller keeps what link returned (or the error it threw) and hands the
\* same Linker the next compiled module.
LinkAnother(t) ==
  /\ app.status # "none"
  /\ Len(linkedApps) + 1 < MaxLinks
  /\ linkedApps' = Append(linkedApps, [tree |-> tree, app |-> app])
  /\ tree' = t
  /\ app' = EmptyApp
  /\ UNCHANGED <<linker, callLog, dispatched, ran>>
  /\ UNCHANGED <<diVars, graphVars, webVars, lifeVars>>

RelinkInit ==
  /\ tree \in RelinkTrees
  /\ imports = [m \in Modules |-> <<>>]
  /\ providers = [m \in Modules |-> <<>>]
  /\ DIConst
  /\ LifeIdle
  /\ GraphIdle
  /\ WebIdle
  /\ CliIdleApp

RelinkNext ==
  \/ Link
  \/ \E t \in RelinkTrees : LinkAnother(t)

SpecRelink == RelinkInit /\ [][RelinkNext]_vars

\* ------------------------------------------------------------------------
\* Command line application: run(argv)
\* ------------------------------------------------------------------------
\* The tokens argv is made of: names a command may carry, a key every object
\* inherits, a numeral, and the two help flags.
ArgvTokens == {"x", "y", "toString", "0", "--help", "-h"}

Argvs == SeqsUpTo(ArgvTokens, MaxArgv)

\* /^-/ : the token is a flag
IsFlag(token) == token \in {"--help", "-h"}

FlagKey(token) == IF token = "--help" THEN "help" ELSE "h"

\* parseArgs turns a token that reads as a number into that number.
IsNumber(token) == token = "0"

\* The values of parsed arguments.
Undefined == [type |-> "undefined", text |-> ""]
True == [type |-> "boolean", text |-> "true"]
False == [type |-> "boolean", text |-> "false"]
Parsed(token) ==
  [type |-> IF IsNumber(token) THEN "number" ELSE "string", text |-> token]

\* JavaScript truthiness
Truthy(v) ==
  CASE v.type = "undefined" -> FALSE
    [] v.type = "boolean" -> v.text = "true"
    [] v.type = "number" -> v.text # "0"
    [] OTHER -> v.text # ""

RECURSIVE parseFrom(_, _, _)
\* parseArgs from token i on: a flag takes the token after it as its value
\* unless that is a flag too, and is true when it takes none; any other
\* token is a positional.
parseFrom(argv, i, args) ==
  IF i > Len(argv) THEN args
  ELSE IF IsFlag(argv[i])
    THEN IF i < Len(argv) /\ ~IsFlag(argv[i + 1])
           THEN parseFrom(argv, i + 2,
                          [args EXCEPT ![FlagKey(argv[i])] = Parsed(argv[i + 1])])
           ELSE parseFrom(argv, i + 1, [args EXCEPT ![FlagKey(argv[i])] = True])
  ELSE parseFrom(argv, i + 1, [args EXCEPT !.positionals = Append(@, Parsed(argv[i]))])

\* parseArgs(argv): the positionals (args._) and the flags help and h
parseArgs(argv) ==
  parseFrom(argv, 1, [positionals |-> <<>>, help |-> Undefined, h |-> Undefined])

\* args.help ?? args.h ?? false
showHelp(args) ==
  Truthy(IF args.help # Undefined THEN args.help
         ELSE IF args.h # Undefined THEN args.h
         ELSE False)

\* args._.length ? args._[0] : null
Route(args) ==
  IF Len(args.positionals) > 0 THEN args.positionals[1] ELSE Undefined

\* help[key] on the object literal `help`: the text set for the key, else
\* what the key inherits, else undefined ("unset").
HelpOf(key) ==
  IF key \in DOMAIN app.help /\ app.help[key] # "unset" THEN app.help[key]
  ELSE IF key \in ObjectPrototype THEN "[Function: toString]"
  ELSE "unset"

Started(argv) == [NoRun EXCEPT !.argv = argv]

\* Application.handleError(err, args): the root module's error handler is
\* called with the error, or the error is rethrown.
handleErrorRethrows(R, err) ==
  [R EXCEPT !.out = "rejected", !.error = err, !.rejection = err]
handleError(R, err) ==
  IF app.errorHandler = "none"
    THEN [R EXCEPT !.out = "rejected", !.error = err, !.rejection = err]
  ELSE IF app.errorHandler = "throw"
    THEN [R EXCEPT !.out = "rejected", !.error = err, !.handled = Append(@, err),
                   !.rejection = "error handler error"]
  ELSE [R EXCEPT !.out = "resolved", !.error = err, !.handled = Append(@, err)]

\* Application.handleHelp(help): print the help, or throw when there is none.
handleHelp(R, help) ==
  IF help \in {"unset", ""}
    THEN [R EXCEPT !.out = "rejected", !.error = "MissingHelpError",
                   !.rejection = "MissingHelpError"]
    ELSE [R EXCEPT !.out = "resolved", !.printed = help]

\* await handler(new ChoCommandContext(args)); await onModuleShutdown(...)
Invoke(R, name, h, positionals) ==
  LET r == next(h, [i |-> 0, log |-> <<>>, out |-> "ok"], FALSE)
  IN [ran |-> [R EXCEPT !.invoked = Append(@, name),
                        !.forwarded = positionals,
                        !.out = IF r.out = "ok" THEN "resolved" ELSE "rejected",
                        !.error = IF r.out = "ok" THEN "none" ELSE "handler error",
                        !.rejection = IF r.out = "ok" THEN "none" ELSE "handler error",
                        !.shutdown = (r.out = "ok")],
      log |-> r.log]

\* A main application that takes a leading positional for a command name.
ApplicationMainRunRouted(argv) ==
  /\ app.status = "linked"
  /\ app.main.bound
  /\ ran.out = "none"
  /\ LET args == parseArgs(argv)
     IN IF Truthy(Route(args))
          THEN /\ ran' = handleError(Started(argv), "NotFoundError")
               /\ callLog' = <<>>
          ELSE LET r == Invoke(Started(argv), "main", app.main, args.positionals)
               IN /\ ran' = r.ran
                  /\ callLog' = r.log
  /\ UNCHANGED <<tree, linker, app, linkedApps, dispatched>>
  /\ UNCHANGED <<diVars, graphVars, webVars, lifeVars>>

\* ApplicationMain.run(argv), the application Application.create returns
\* for a linked app with a main command
ApplicationMainRun(argv) ==
  /\ app.status = "linked"
  /\ app.main.bound
  /\ ran.out = "none"
  /\ LET args == parseArgs(argv)
     IN IF showHelp(args)
          THEN /\ ran' = handleHelp(Started(argv),
                                    IF app.help["main"] \in {"unset", ""}
                                      THEN app.helpKey ELSE app.help["main"])
               /\ callLog' = <<>>
          ELSE LET r == Invoke(Started(argv), "main", app.main, args.positionals)
               IN /\ ran' = r.ran
                  /\ callLog' = r.log
  /\ UNCHANGED <<tree, linker, app, linkedApps, dispatched>>
  /\ UNCHANGED <<diVars, graphVars, webVars, lifeVars>>

\* ApplicationCommands.run(argv), the application Application.create returns
\* for a linked app without a main command
ApplicationCommandsRun(argv) ==
  /\ app.status = "linked"
  /\ ~app.main.bound
  /\ ran.out = "none"
  /\ LET args == parseArgs(argv)
         route == Route(args)
         R == Started(argv)
     IN IF showHelp(args) /\ ~Truthy(route)
          THEN ran' = handleHelp(R, app.helpKey) /\ callLog' = <<>>
        ELSE IF ~Truthy(route)
          THEN ran' = handleError(R, "MissingCommandError") /\ callLog' = <<>>
        ELSE IF ~Lookup(app.commands, route.text).bound
          THEN ran' = handleError(R, "NotFoundError") /\ callLog' = <<>>
        ELSE IF showHelp(args)
          THEN ran' = handleHelp(R, HelpOf(route.text)) /\ callLog' = <<>>
        ELSE LET r == Invoke(R, route.text, Lookup(app.commands, route.text),
                             Tail(args.positionals))
             IN /\ ran' = r.ran
                /\ callLog' = r.log
  /\ UNCHANGED <<tree, linker, app, linkedApps, dispatched>>
  /\ UNCHANGED <<diVars, graphVars, webVars, lifeVars>>

\* The commands the methods of the one controller declare.
RunDeclarations == {<<>>, <<"main">>, <<"x">>, <<"x", "y">>}

\* The compiled trees run: a root module without an error handler or with
\* one that returns or throws,
\* its controller with or without help, the first command with or without
\* help and with or without a middleware, its method returning or throwing.
RunTrees ==
  {[m \in Modules |->
      IF m = "A"
        THEN Module("A", <<>>, t[1],
               <<[Controller("KA", <<>>, "none",
                    [k \in 1..Len(q) |->
                       IF k = 1
                         THEN [Method("KA", 1, q[1], t[4], "none", t[5])
                                 EXCEPT !.help = t[3]]
                         ELSE Method("KA", k, q[k], <<>>, "none", "ok")])
                  EXCEPT !.help = t[2]]>>)
        ELSE EmptyModule] :
     q \in RunDeclarations,
     t \in ChainErrorHandlerKinds \X {"", "controller help"} \X {"", "command help"}
             \X {<<>>, <<"pass">>} \X HandleKinds}

RunInit ==
  /\ tree \in RunTrees
  /\ imports = [m \in Modules |-> <<>>]
  /\ providers = [m \in Modules |-> <<>>]
  /\ DIConst
  /\ LifeIdle
  /\ GraphIdle
  /\ WebIdle
  /\ CliIdleApp

RunNext ==
  \/ Link
  \/ \E argv \in Argvs : ApplicationMainRun(argv)
  \/ \E argv \in Argvs : ApplicationCommandsRun(argv)

SpecRun == RunInit /\ [][RunNext]_vars

\* ------------------------------------------------------------------------
\* Application life cycle: Application.create and the hook dispatches
\* ------------------------------------------------------------------------
Hooks == {"onModuleInit", "onModuleActivate", "onModuleShutdown"}

\* What an instance's hook does: "none" when the instance does not implement
\* it, else the promise it returns resolves or rejects.
HookKinds == {"none", "resolve", "reject"}

\* visit(m) entered: the hook of m is next, then its imports from the first.
Frame(m) == [m |-> m, at |-> "hook", i |-> 1]

\* A hook called and left behind without waiting for it.
NotAwaited(f) == [f EXCEPT !.at = "imports"]

\* await handle.onModuleInit(mdl): visit(m) goes on once the hook settled
Await(f) == [f EXCEPT !.at = "await"]

\* A hook dispatch is in progress.
Dispatching == life.phase \in Hooks /\ life.stack # <<>>

\* The innermost visit(m) call.
Top == life.stack[Len(life.stack)]

SetTop(f) == [life.stack EXCEPT ![Len(life.stack)] = f]

Event(ev, target) == [ev |-> ev, phase |-> life.phase, target |-> target]

\* const compiled = await new Compiler().compile(graphBuilder(ctr)), then
\* onModuleInit(compiled) enters visit(compiled)
CreateCompile ==
  /\ life.phase = "idle"
  /\ life' = IF defect # "none"
               THEN [life EXCEPT !.phase = "rejected", !.error = defect]
               ELSE [life EXCEPT !.phase = "onModuleInit",
                                 !.stack = <<Frame(Root)>>,
                                 !.log = Append(@, Event("compiled", Root))]
  /\ UNCHANGED <<instances, defect>>
  /\ UNCHANGED <<diVars, graphVars, cliVars, webVars>>

\* if (handle && typeof handle.onModuleInit === "function")
\*   await handle.onModuleInit(mdl)
HookCall ==
  /\ Dispatching
  /\ Top.at = "hook"
  /\ life' = IF instances.modules[Top.m] = "none"
               THEN [life EXCEPT !.stack = SetTop([Top EXCEPT !.at = "imports"])]
               ELSE [life EXCEPT !.stack = SetTop(Await(Top)),
                                 !.inflight = @ \cup {[m |-> Top.m, n |-> Len(life.log) + 1]},
                                 !.log = Append(@, Event("call", Top.m))]
  /\ UNCHANGED <<instances, defect>>
  /\ UNCHANGED <<diVars, graphVars, cliVars, webVars>>

\* The promise of a called hook settles: the visit awaiting it goes on, or
\* the dispatch rejects with the hook's error.
HookSettle(h) ==
  /\ h \in life.inflight
  /\ LET awaited == Dispatching /\ Top.at = "await" /\ Top.m = h.m
         settled == [life EXCEPT !.inflight = @ \ {h},
                                 !.log = Append(@, Event("settle", h.m))]
     IN life' = IF ~awaited THEN settled
                ELSE IF instances.modules[h.m] = "reject"
                  THEN [settled EXCEPT !.phase = "rejected",
                                       !.error = "hook rejected",
                                       !.stack = <<>>]
                ELSE [settled EXCEPT !.stack = SetTop([Top EXCEPT !.at = "imports"])]
  /\ UNCHANGED <<instances, defect>>
  /\ UNCHANGED <<diVars, graphVars, cliVars, webVars>>

\* for (const im of m.imports) await visit(im)
VisitImport ==
  /\ Dispatching
  /\ Top.at = "imports"
  /\ Top.i <= Len(imports[Top.m])
  /\ life' = [life EXCEPT !.stack = Append(SetTop([Top EXCEPT !.i = @ + 1]),
                                            Frame(imports[Top.m][Top.i]))]
  /\ UNCHANGED <<instances, defect>>
  /\ UNCHANGED <<diVars, graphVars, cliVars, webVars>>

\* visit(m) returns after the last import
VisitReturn ==
  /\ Dispatching
  /\ Top.at = "imports"
  /\ Top.i > Len(imports[Top.m])
  /\ life' = [life EXCEPT !.stack = SubSeq(@, 1, Len(@) - 1)]
  /\ UNCHANGED <<instances, defect>>
  /\ UNCHANGED <<diVars, graphVars, cliVars, webVars>>

\* A failed link goes on to the activation hooks all the same.
LinkedAnyway(L) == TRUE

\* const linked = new Linker().link(compiled) returned
Linked(L) == ~Threw(L)

\* After onModuleInit(compiled) returned: new Linker().link(compiled), then
\* onModuleActivate(compiled, linked) enters visit(compiled)
CreateLink ==
  /\ life.phase = "onModuleInit"
  /\ life.stack = <<>>
  /\ LET L == apply([linker |-> Reset(linker),
                     app |-> [EmptyApp EXCEPT !.errorHandler = tree[Root].errorHandler]],
                    Root)
     IN /\ linker' = L.linker
        /\ app' = IF Threw(L) THEN L.app ELSE [L.app EXCEPT !.status = "linked"]
        /\ life' = IF Linked(L)
                     THEN [life EXCEPT !.phase = "onModuleActivate",
                                       !.stack = <<Frame(Root)>>,
                                       !.log = Append(@, Event("linked", Root))]
                     ELSE [life EXCEPT !.phase = "rejected", !.error = "link"]
  /\ UNCHANGED <<tree, linkedApps, callLog, dispatched, ran>>
  /\ UNCHANGED <<instances, defect>>
  /\ UNCHANGED <<diVars, graphVars, webVars>>

\* After onModuleActivate(compiled, linked) returned: create returns the
\* application object.
CreateReturn ==
  /\ life.phase = "onModuleActivate"
  /\ life.stack = <<>>
  /\ life' = [life EXCEPT !.phase = "created", !.log = Append(@, Event("created", Root))]
  /\ UNCHANGED <<instances, defect>>
  /\ UNCHANGED <<diVars, graphVars, cliVars, webVars>>

\* run: await onModuleShutdown(this.instance, this.appRef) enters visit
RunShutdown ==
  /\ life.phase = "created"
  /\ life' = [life EXCEPT !.phase = "onModuleShutdown", !.stack = <<Frame(Root)>>]
  /\ UNCHANGED <<instances, defect>>
  /\ UNCHANGED <<diVars, graphVars, cliVars, webVars>>

\* onModuleShutdown(...) returned
ShutdownReturn ==
  /\ life.phase = "onModuleShutdown"
  /\ life.stack = <<>>
  /\ life' = [life EXCEPT !.phase = "done"]
  /\ UNCHANGED <<instances, defect>>
  /\ UNCHANGED <<diVars, graphVars, cliVars, webVars>>

\* The compiled trees created: the root's controller declares a command x,
\* or a main command and a command x, which the linker refuses.
LifeTrees ==
  {[m \in Modules |->
      IF m = "A"
        THEN Module("A", <<>>, "none",
                    <<Controller("KA", <<>>, "none", Methods("KA", q))>>)
        ELSE EmptyModule] :
     q \in {<<"x">>, <<"main", "x">>}}

\* What is wrong with the class handed to create: a class without decorator
\* metadata makes graphBuilder throw, a dependency nothing provides makes
\* the compiler throw.
Defects == {"none", "graphBuilder", "compile"}

LifeInit ==
  /\ tree \in LifeTrees
  /\ imports \in LinkImports
  /\ providers = [m \in Modules |-> <<>>]
  /\ DIConst
  /\ GraphIdle
  /\ WebIdle
  /\ CliIdleApp
  /\ instances \in [modules : [Modules -> HookKinds],
                    controllers : {[m \in Modules |-> IF m = "A" THEN k ELSE "none"] :
                                     k \in {"none", "resolve"}}]
  /\ defect \in Defects
  /\ life = NoLife

LifeNext ==
  \/ CreateCompile
  \/ HookCall
  \/ \E h \in life.inflight : HookSettle(h)
  \/ VisitImport
  \/ VisitReturn
  \/ CreateLink
  \/ CreateReturn
  \/ RunShutdown
  \/ ShutdownReturn

SpecLife == LifeInit /\ [][LifeNext]_vars

\* ------------------------------------------------------------------------
\* Web linker
\* ------------------------------------------------------------------------
\* meta.type as the method decorators set it.
HttpTypes == {"GET", "POST", "PUT", "DELETE", "PATCH"}
StreamTypes == {"STREAM", "STREAM_TEXT", "SSE"}
AsyncStreamTypes == {"STREAM_ASYNC", "STREAM_TEXT_ASYNC", "SSE_ASYNC"}
EndpointTypes == HttpTypes \cup StreamTypes \cup AsyncStreamTypes \cup {"STREAM_PIPE"}

\* cm.meta.type.toLocaleLowerCase()
toLocaleLowerCase(type) ==
  CASE type = "GET" -> "get"
    [] type = "POST" -> "post"
    [] type = "PUT" -> "put"
    [] type = "DELETE" -> "delete"
    [] type = "PATCH" -> "patch"
    [] type = "STREAM" -> "stream"
    [] type = "STREAM_TEXT" -> "stream_text"
    [] type = "SSE" -> "sse"
    [] type = "STREAM_ASYNC" -> "stream_async"
    [] type = "STREAM_TEXT_ASYNC" -> "stream_text_async"
    [] type = "SSE_ASYNC" -> "sse_async"
    [] type = "STREAM_PIPE" -> "stream_pipe"
    [] OTHER -> type

\* What the method does when called: "ok" returns a plain value, "undefined"
\* returns nothing, "throw" throws, "gen" returns an async generator that
\* yields `yields` values, "genThrow" one that throws after them.
WebHandleKinds == {"ok", "undefined", "throw", "gen", "genThrow"}

\* A compiled method of a web controller.
WebMethod(cls, k, type, errorHandler, kind, yields) ==
  [meta |-> [type |-> type, middlewares |-> <<>>, args |-> 0,
             method |-> IF type \in HttpTypes THEN "none" ELSE "GET"],
   middlewares |-> <<>>,
   errorHandler |-> errorHandler,
   handle |-> [cls |-> cls, method |-> k, kind |-> kind, yields |-> yields]]

\* A compiled web controller.
WebController(cls, errorHandler, methods) ==
  [cls |-> cls, meta |-> [middlewares |-> <<>>], middlewares |-> <<>>,
   errorHandler |-> errorHandler, methods |-> methods]

\* A compiled web module.
WebModule(errorHandler, controllers) ==
  [meta |-> [middlewares |-> <<>>], middlewares |-> <<>>,
   errorHandler |-> errorHandler, controllers |-> controllers]

\* A call of the adapter made while linking.
AdapterCall(op, a, k, type, into) ==
  [op |-> op, a |-> a, k |-> k, type |-> type, into |-> into, middlewares |-> <<>>]

\* this.adapter.createMiddlewares(list): the adapter wraps each entry of the
\* list it is given, as it is.
adapterCreateMiddlewares(list) == list

\* The adapter call with the middleware list handed to it.
Handing(call, list) == [call EXCEPT !.middlewares = adapterCreateMiddlewares(list)]

Called(W, c) == [W EXCEPT !.calls = Append(@, c)]

WebFailed(W) == W.status = "failed"

\* throw new Error(...)
WebThrow(W, error) == [W EXCEPT !.status = "failed", !.error = error]

\* The endpoint function one of linkHttp, linkStream and linkAsyncStream
\* returns, wrapped by the adapter factory `via`.
Endpoint(m, c, k, via, link, channel) ==
  [module |-> m, cls |-> tree[m].controllers[c].cls, method |-> k,
   via |-> via, link |-> link, channel |-> channel]

\* adapter.createStreamEndpoint and the like: an optional factory
Supports(capability) == capability \in adapter

\* Linker.method(cm): the endpoint for the method's type, null for a type the
\* switch does not know, an error for a type the adapter has no factory for.
method(m, c, k) ==
  LET type == toLocaleLowerCase(tree[m].controllers[c].methods[k].meta.type)
      made(via, link, channel) ==
        [does |-> "return", endpoint |-> Endpoint(m, c, k, via, link, channel)]
      thrown(error) == [does |-> "throw", error |-> error]
  IN CASE type \in {"get", "post", "put", "delete", "patch"} ->
            made("createEndpoint", "http", "none")
       [] type = "stream" ->
            IF ~Supports("stream")
              THEN thrown("Adapter does not support stream endpoints")
              ELSE made("createStreamEndpoint", "stream", "none")
       [] type = "stream_text" ->
            IF ~Supports("text")
              THEN thrown("Adapter does not support text stream endpoints")
              ELSE made("createTextStreamEndpoint", "stream", "none")
       [] type = "sse" ->
            IF ~Supports("sse")
              THEN thrown("Adapter does not support SSE endpoints")
              ELSE made("createSseEndpoint", "stream", "none")
       [] type = "stream_async" ->
            IF ~Supports("stream")
              THEN thrown("Adapter does not support stream endpoints")
              ELSE made("createStreamEndpoint", "async", "raw")
       [] type = "steam_text_async" ->
            IF ~Supports("text")
              THEN thrown("Adapter does not support text stream endpoints")
              ELSE made("createTextStreamEndpoint", "async", "string")
       [] type = "sse_async" ->
            IF ~Supports("sse")
              THEN thrown("Adapter does not support SSE endpoints")
              ELSE made("createSseEndpoint", "async", "sse")
       [] OTHER -> [does |-> "null"]

RECURSIVE controllerMethods(_, _, _, _, _)
\* for (const cm of cg.methods): mount the endpoint of each method that has one
controllerMethods(W, m, c, k, mounted) ==
  IF WebFailed(W) \/ k > Len(tree[m].controllers[c].methods)
    THEN [w |-> W, mounted |-> mounted]
  ELSE LET r == method(m, c, k)
           cc == tree[m].controllers[c]
       IN CASE r.does = "throw" ->
                 [w |-> WebThrow(W, r.error), mounted |-> mounted]
            [] r.does = "null" -> controllerMethods(W, m, c, k + 1, mounted)
            [] OTHER ->
                 controllerMethods(
                   [Called(Called(W, AdapterCall(r.endpoint.via, cc.cls, k, "none", "none")),
                           Handing(AdapterCall("mountEndpoint", cc.cls, k,
                                               cc.methods[k].meta.type, "none"),
                                   cc.methods[k].meta.middlewares))
                      EXCEPT !.endpoints = @ \cup {r.endpoint}],
                   m, c, k + 1, TRUE)

\* A controller returned whether or not an endpoint was mounted on it.
controllerUnpruned(W, m, c) ==
  LET W1 == Called(W, AdapterCall("createController",
                                  tree[m].controllers[c].cls, 0, "none", "none"))
  IN Only({[w |-> r.w, ret |-> TRUE] :
             r \in {controllerMethods(W1, m, c, 1, FALSE)}})

\* Linker.controller(cg): null for a controller without methods or without a
\* mounted endpoint
controller(W, m, c) ==
  IF Len(tree[m].controllers[c].methods) = 0 THEN [w |-> W, ret |-> FALSE]
  ELSE LET W1 == Called(W, Handing(AdapterCall("createController",
                                               tree[m].controllers[c].cls, 0,
                                               "none", "none"),
                                   tree[m].controllers[c].meta.middlewares))
       IN Only({[w |-> r.w, ret |-> r.mounted] :
                  r \in {controllerMethods(W1, m, c, 1, FALSE)}})

RECURSIVE featureControllers(_, _, _, _)
\* for (const cc of cm.controllers): mount each controller that is not null
featureControllers(W, m, c, mounted) ==
  IF WebFailed(W) \/ c > Len(tree[m].controllers)
    THEN [w |-> W, mounted |-> mounted]
  ELSE Only({IF WebFailed(r.w) \/ ~r.ret
                THEN featureControllers(r.w, m, c + 1, mounted)
                ELSE featureControllers(
                       Called(r.w, AdapterCall("mountController",
                                               tree[m].controllers[c].cls, 0, "none", m)),
                       m, c + 1, TRUE) :
              r \in {controller(W, m, c)}})

RECURSIVE feature(_, _)
RECURSIVE featureImports(_, _, _, _)

\* for (const cf of cm.imports): mount each sub-feature that is not null
featureImports(W, m, i, mounted) ==
  IF WebFailed(W) \/ i > Len(imports[m]) THEN [w |-> W, mounted |-> mounted]
  ELSE Only({IF WebFailed(r.w) \/ ~r.ret
                THEN featureImports(r.w, m, i + 1, mounted)
                ELSE featureImports(
                       Called(r.w, AdapterCall("mountFeature", imports[m][i], 0, "none", m)),
                       m, i + 1, TRUE) :
              r \in {feature(W, imports[m][i])}})

\* Linker.feature(cm): the feature with its imports, then its controllers,
\* mounted; null when nothing was mounted
feature(W, m) ==
  LET W1 == Called(W, Handing(AdapterCall("createFeature", m, 0, "none", "none"),
                              tree[m].meta.middlewares))
  IN Only({[w |-> r2.w, ret |-> r2.mounted] :
             r2 \in {featureControllers(r1.w, m, 1, r1.mounted) :
                       r1 \in {featureImports(W1, m, 1, FALSE)}}})

\* Linker.link(cm) of the web linker
WebLink ==
  /\ wapp.status = "none"
  /\ \E r \in {feature([calls |-> <<>>, status |-> "linking", error |-> "none",
                         endpoints |-> {}], Root)} :
     LET W == IF ~WebFailed(r.w) /\ ~r.ret
                THEN WebThrow(r.w, "Cannot link an empty module")
                ELSE r.w
     IN /\ mounts' = W.calls
        /\ wapp' = [status |-> IF WebFailed(W) THEN "failed" ELSE "linked",
                    error |-> W.error,
                    endpoints |-> IF WebFailed(W) THEN {} ELSE W.endpoints]
  /\ UNCHANGED <<adapter, served, writes, initiated, mwCall>>
  /\ UNCHANGED <<diVars, graphVars, cliVars, lifeVars>>

\* The write call of a channel: stream.write, stream.writeln, stream.writeSSE
WriteOp(channel) ==
  CASE channel = "raw" -> "write"
    [] channel = "string" -> "writeln"
    [] OTHER -> "writeSSE"

\* for await (const next of it) { await stream.write...(next) }: each value
\* is pulled from the generator, then written, before the next one is pulled;
\* the last pull finds the generator done (or throwing).
Drain(channel, yields) ==
  [j \in 1..(2 * yields + 1) |->
     IF j % 2 = 1 THEN [op |-> "next", value |-> (j + 1) \div 2]
     ELSE [op |-> WriteOp(channel), value |-> j \div 2]]

\* meta.args of a method whose decorators name no argument factories: the
\* streaming decorators store none, @Args(...) stores them.
NoArgs == -1

\* The values of the handler's arguments: a declared one, the streaming API,
\* the context.
Arg(kind, n) == [arg |-> kind, n |-> n]

\* getArgs(ctx): one value per argument factory, in order.
getArgs(args) == [i \in 1..args |-> Arg("declared", i)]

\* The context handed over before the stream.
linkStreamArgsSwapped(args) == args \o <<Arg("ctx", 0), Arg("stream", 0)>>

\* await main(...args, stream, ctx)
linkStreamArgs(args) == args \o <<Arg("stream", 0), Arg("ctx", 0)>>

\* await main(...args, ctx)
linkAsyncStreamArgs(args) == args \o <<Arg("ctx", 0)>>

\* The arguments the endpoint function calls the method with.
mainArgs(e, args) ==
  CASE e.link = "http" -> args \o <<Arg("ctx", 0)>>
    [] e.link = "stream" -> linkStreamArgs(args)
    [] OTHER -> linkAsyncStreamArgs(args)

\* The try block of the endpoint function: what it read and wrote and the
\* error it threw ("none" when it completed).
TryEndpoint(e, h) ==
  IF e.link \in {"http", "stream"}
    THEN [log |-> <<>>, error |-> IF h.kind = "throw" THEN "handler error" ELSE "none"]
  ELSE CASE h.kind = "throw" -> [log |-> <<>>, error |-> "handler error"]
         [] h.kind = "undefined" -> [log |-> <<>>, error |-> "TypeError"]
         [] h.kind = "ok" -> [log |-> <<>>, error |-> "not return an async generator"]
         [] h.kind = "gen" -> [log |-> Drain(e.channel, h.yields), error |-> "none"]
         [] OTHER -> [log |-> Drain(e.channel, h.yields), error |-> "generator error"]

\* When meta.args is undefined, getArgs(ctx) fails on `for (... of args)`
\* before the method is called.
\* The endpoint function called by the adapter: the catch block hands an
\* error to the method's error handler, or rethrows it when there is none.
RunEndpoint(e) ==
  LET cm == tree[e.module].controllers[
              CHOOSE c \in DOMAIN tree[e.module].controllers :
                tree[e.module].controllers[c].cls = e.cls].methods[e.method]
      called == cm.meta.args # NoArgs
      r == IF called THEN TryEndpoint(e, cm.handle)
           ELSE [log |-> <<>>, error |-> "TypeError"]
  IN [log |-> r.log, error |-> r.error,
      called |-> called,
      args |-> IF called THEN mainArgs(e, getArgs(cm.meta.args)) ELSE <<>>,
      out |-> IF r.error = "none" \/ cm.errorHandler # "none"
                THEN "responded" ELSE "rejected",
      handledBy |-> IF r.error # "none" /\ cm.errorHandler # "none"
                      THEN "method" ELSE "none"]

\* The modules of the tree handed to link: the root, its imports, theirs.
WebModules ==
  LET below(S) == S \cup UNION {{imports[m][i] : i \in DOMAIN imports[m]} : m \in S}
  IN below(below({Root}))

\* The methods the tree declares, as class and method index.
WebSites ==
  UNION {UNION {{[cls |-> tree[m].controllers[c].cls, method |-> k] :
                   k \in DOMAIN tree[m].controllers[c].methods} :
                c \in DOMAIN tree[m].controllers} : m \in WebModules}

\* A request for the route of a declared method reaches the linked app: the
\* adapter calls the endpoint mounted there, or finds none.
Request(site) ==
  /\ wapp.status = "linked"
  /\ served.out = "none"
  /\ site \in WebSites
  /\ LET found == {e \in wapp.endpoints : e.cls = site.cls /\ e.method = site.method}
     IN IF found = {}
          THEN /\ served' = [NotServed EXCEPT !.site = site, !.out = "not found"]
               /\ writes' = <<>>
          ELSE LET r == RunEndpoint(CHOOSE e \in found : TRUE)
               IN /\ served' = [site |-> site, out |-> r.out, error |-> r.error,
                                handledBy |-> r.handledBy,
                                called |-> r.called, args |-> r.args]
                  /\ writes' = r.log
  /\ UNCHANGED <<adapter, mounts, wapp, initiated, mwCall>>
  /\ UNCHANGED <<diVars, graphVars, cliVars, lifeVars>>

\* The types declared by the methods of KA (up to two), KA2 and KB (up to
\* one each), at most MaxWebMethods in all.
WebDeclarations ==
  {q \in SeqsUpTo(EndpointTypes, 2) \X SeqsUpTo(EndpointTypes, 1)
           \X SeqsUpTo(EndpointTypes, 1) :
     Len(q[1]) + Len(q[2]) + Len(q[3]) <= MaxWebMethods}

WebMethods(cls, types) ==
  [k \in 1..Len(types) |-> WebMethod(cls, k, types[k], "none", "ok", 0)]

\* Trees that vary in where endpoints of which type sit: A holds KA and KA2,
\* B holds KB.
WebLinkTrees ==
  {[m \in Modules |->
      CASE m = "A" -> WebModule("none", <<WebController("KA", "none", WebMethods("KA", q[1])),
                                         WebController("KA2", "none", WebMethods("KA2", q[2]))>>)
        [] m = "B" -> WebModule("none", <<WebController("KB", "none", WebMethods("KB", q[3]))>>)
        [] OTHER -> WebModule("none", <<>>)] :
     q \in WebDeclarations}

\* Trees that vary in what the method of KA does when called, next to a
\* controller KA2 with a plain GET method.
WebServeTrees ==
  {[m \in Modules |->
      IF m = "A"
        THEN WebModule("none",
               <<WebController("KA", "none",
                               <<WebMethod("KA", 1, t[1], t[2], t[3], t[4])>>),
                 WebController("KA2", "none",
                               <<WebMethod("KA2", 1, "GET", "none", "ok", 0)>>)>>)
        ELSE WebModule("none", <<>>)] :
     t \in {u \in EndpointTypes \X ErrorHandlerKinds \X WebHandleKinds \X (0..MaxYields) :
              u[3] \in {"gen", "genThrow"} \/ u[4] = 0}}

WebInit ==
  /\ tree \in WebLinkTrees \cup WebServeTrees
  /\ imports \in {[m \in Modules |-> IF m = "A" THEN i ELSE <<>>] :
                    i \in {<<>>, <<"B">>, <<"B", "B">>}}
  /\ providers = [m \in Modules |-> <<>>]
  /\ DIConst
  /\ LifeIdle
  /\ GraphIdle
  /\ CliIdleApp
  /\ adapter \in SUBSET Capabilities
  /\ mounts = <<>>
  /\ wapp = [status |-> "none", error |-> "none", endpoints |-> {}]
  /\ served = NotServed
  /\ writes = <<>>
  /\ initiated = [status |-> "compiled", error |-> "none"]
  /\ mwCall = NoMwCall

WebNext ==
  \/ WebLink
  \/ \E site \in [cls : {"KA", "KA2", "KB"}, method : 1..2] : Request(site)

SpecWeb == WebInit /\ [][WebNext]_vars

\* The method with the argument factories and the verb its decorators store:
\* @Args(...) stores the factories, a streaming decorator the verb.
DecoratedWith(cm, args, verb) == [cm EXCEPT !.meta.args = args, !.meta.method = verb]

\* The verbs given to a streaming decorator as its method parameter.
Verbs == {"GET", "POST"}

\* Trees that vary in the type, the argument factories and the verb of the
\* method of KA, and in what the method does when called.
EndpointTrees ==
  {[m \in Modules |->
      IF m = "A"
        THEN WebModule("none",
               <<WebController("KA", "none",
                   <<DecoratedWith(WebMethod("KA", 1, t[1], t[2], t[3], t[4]), t[5], t[6])>>)>>)
        ELSE WebModule("none", <<>>)] :
     t \in {u \in EndpointTypes \X ErrorHandlerKinds \X WebHandleKinds \X (0..MaxYields)
                  \X (NoArgs..MaxArgs) \X (Verbs \cup {"none"}) :
              /\ u[3] \in {"gen", "genThrow"} \/ u[4] = 0
              /\ u[1] \in HttpTypes <=> u[6] = "none"
              /\ u[1] \in HttpTypes => u[5] # NoArgs}}

EndpointInit ==
  /\ tree \in EndpointTrees
  /\ imports = [m \in Modules |-> <<>>]
  /\ providers = [m \in Modules |-> <<>>]
  /\ DIConst
  /\ LifeIdle
  /\ GraphIdle
  /\ CliIdleApp
  /\ adapter = Capabilities
  /\ mounts = <<>>
  /\ wapp = [status |-> "none", error |-> "none", endpoints |-> {}]
  /\ served = NotServed
  /\ writes = <<>>
  /\ initiated = [status |-> "compiled", error |-> "none"]
  /\ mwCall = NoMwCall

EndpointNext ==
  \/ WebLink
  \/ Request([cls |-> "KA", method |-> 1])

SpecEndpoint == EndpointInit /\ [][EndpointNext]_vars

\* ------------------------------------------------------------------------
\* Middleware normalization (initiator) and the lists the web Linker hands over
\* ------------------------------------------------------------------------

\* An entry of a descriptor's middleware list: what it is ("function" for a
\* plain function, "class" for a class, "value" for anything else), the methods
\* a class implements, what calling it does, and what its guard method answers.
MwEntry(is, implements, verdict) ==
  [is |-> is, implements |-> implements,
   does |-> IF is = "function" THEN "function" ELSE "none",
   verdict |-> verdict]

GuardRejection == "Request blocked by guard middleware"
NotMiddlewareClass == "ChoMiddlewareFn is not middleware class"
NotClassOrFunction == "Middleware is not a class or function"

\* choMiddlewareToFn: the instance's handle, bound to the instance.
choMiddlewareToFn(mw) == [mw EXCEPT !.is = "function", !.does = "handle"]

\* choGuardToFn: a function that asks the instance's can(ctx).
choGuardToFn(mw) == [mw EXCEPT !.is = "function", !.does = "guard"]

\* createMiddleware(mw, injector): the normalized function, or the error thrown.
createMiddleware(mw) ==
  IF mw.is \notin {"function", "class"}
    THEN [threw |-> NotClassOrFunction, fn |-> NoFn]
  ELSE IF mw.is # "class"
    THEN [threw |-> "none", fn |-> mw]
  ELSE IF "handle" \in mw.implements
    THEN [threw |-> "none", fn |-> choMiddlewareToFn(mw)]
  ELSE IF "can" \in mw.implements
    THEN [threw |-> "none", fn |-> choGuardToFn(mw)]
  ELSE [threw |-> NotMiddlewareClass, fn |-> NoFn]

\* createMiddlewares(mws, injector): the entries normalized in order; the
\* first error ends the loop.
RECURSIVE createMiddlewaresFrom(_, _, _)
createMiddlewaresFrom(mws, i, middlewares) ==
  IF i > Len(mws) THEN [threw |-> "none", fns |-> middlewares]
  ELSE \* the singleton binds the result, which is used twice
       Only({IF r.threw # "none" THEN [threw |-> r.threw, fns |-> <<>>]
             ELSE createMiddlewaresFrom(mws, i + 1, Append(middlewares, r.fn)) :
             r \in {createMiddleware(mws[i])}})

createMiddlewares(mws) == createMiddlewaresFrom(mws, 1, <<>>)

\* initiateMethod: the method with its normalized list.
initiateMethod(cm) ==
  Only({[threw |-> r.threw, node |-> [cm EXCEPT !.middlewares = r.fns]] :
        r \in {createMiddlewares(cm.meta.middlewares)}})

\* initiateController: the methods in order, then the controller's own list.
RECURSIVE initiateMethodsFrom(_, _)
initiateMethodsFrom(cc, k) ==
  IF k > Len(cc.methods)
    THEN Only({[threw |-> r.threw, node |-> [cc EXCEPT !.middlewares = r.fns]] :
               r \in {createMiddlewares(cc.meta.middlewares)}})
  ELSE Only({IF r.threw # "none" THEN [threw |-> r.threw, node |-> cc]
             ELSE initiateMethodsFrom([cc EXCEPT !.methods[k] = r.node], k + 1) :
             r \in {initiateMethod(cc.methods[k])}})

initiateController(cc) == initiateMethodsFrom(cc, 1)

\* initiateModule: the controllers in order, then the imports, then the
\* module's own list; a module already initiated comes from the cache.
\* T is the tree so far, done the modules in the cache.
RECURSIVE initiateModule(_, _, _, _)
RECURSIVE initiateControllersFrom(_, _, _, _, _)
RECURSIVE initiateImportsFrom(_, _, _, _, _)
initiateControllersFrom(T, done, m, c, depth) ==
  IF c > Len(T[m].controllers) THEN initiateImportsFrom(T, done, m, 1, depth)
  ELSE Only({IF r.threw # "none" THEN [threw |-> r.threw, tree |-> T, done |-> done]
             ELSE initiateControllersFrom([T EXCEPT ![m].controllers[c] = r.node],
                                          done, m, c + 1, depth) :
             r \in {initiateController(T[m].controllers[c])}})

initiateImportsFrom(T, done, m, i, depth) ==
  IF i > Len(imports[m])
    THEN Only({[threw |-> r.threw,
                tree |-> [T EXCEPT ![m].middlewares = r.fns],
                done |-> IF r.threw = "none" THEN done \cup {m} ELSE done] :
               r \in {createMiddlewares(T[m].meta.middlewares)}})
  ELSE Only({IF r.threw # "none" THEN r
             ELSE initiateImportsFrom(r.tree, r.done, m, i + 1, depth) :
             r \in {initiateModule(T, done, imports[m][i], depth - 1)}})

initiateModule(T, done, m, depth) ==
  IF m \in done \/ depth = 0 THEN [threw |-> "none", tree |-> T, done |-> done]
  ELSE initiateControllersFrom(T, done, m, 1, depth)

\* initiate(root): the nodes graph, with every middleware list normalized.
Initiate ==
  /\ initiated.status = "none"
  /\ \E r \in {initiateModule(tree, {}, Root, MaxStack)} :
       IF r.threw # "none"
         THEN /\ initiated' = [status |-> "failed", error |-> r.threw]
              /\ UNCHANGED tree
         ELSE /\ initiated' = [status |-> "compiled", error |-> "none"]
              /\ tree' = r.tree
  /\ UNCHANGED <<linker, app, linkedApps, callLog, dispatched, ran>>
  /\ UNCHANGED <<adapter, mounts, wapp, served, writes, mwCall>>
  /\ UNCHANGED <<diVars, graphVars, lifeVars>>

\* The web Linker links the tree the compiler returned.
LinkInitiated ==
  /\ initiated.status = "compiled"
  /\ WebLink

\* The normalized middleware lists of the compiled tree.
NormalizedLists ==
  {tree[m].middlewares : m \in Modules}
  \cup UNION {{tree[m].controllers[c].middlewares :
                 c \in 1..Len(tree[m].controllers)} : m \in Modules}
  \cup UNION {UNION {{tree[m].controllers[c].methods[k].middlewares :
                        k \in 1..Len(tree[m].controllers[c].methods)} :
                     c \in 1..Len(tree[m].controllers)} : m \in Modules}

\* A normalized middleware is called with a context and a next that counts
\* its calls: the guard function asks the instance and calls next() or throws;
\* a plain function or a bound handle here calls next() once.
CallMiddleware(fn) ==
  /\ initiated.status = "compiled"
  /\ mwCall = NoMwCall
  /\ mwCall' = IF fn.does = "guard"
                 THEN IF fn.verdict
                        THEN [fn |-> fn, nexts |-> 1, error |-> "none"]
                        ELSE [fn |-> fn, nexts |-> 0, error |-> GuardRejection]
                 ELSE [fn |-> fn, nexts |-> 1, error |-> "none"]
  /\ UNCHANGED <<adapter, mounts, wapp, served, writes, initiated>>
  /\ UNCHANGED <<diVars, graphVars, cliVars, lifeVars>>

\* The entries a descriptor may list: a plain function, a class with handle,
\* a class with can, a class with canActivate, a class with neither, and a
\* value that is no function.
MwEntries ==
  {MwEntry("function", {}, FALSE), MwEntry("class", {"handle"}, FALSE),
   MwEntry("class", {}, FALSE), MwEntry("value", {}, FALSE)}
  \cup {MwEntry("class", {g}, v) : g \in {"can", "canActivate"}, v \in BOOLEAN}

\* The middleware lists of module A, controller KA, its method and module B.
\* At most MaxDeclared entries are declared in all: the entries in a row, cut
\* into the four lists.
MwDeclarations ==
  UNION {{<<SubSeq(q, 1, cut[1]), SubSeq(q, cut[1] + 1, cut[2]),
            SubSeq(q, cut[2] + 1, cut[3]), SubSeq(q, cut[3] + 1, Len(q))>> :
            cut \in {x \in [1..3 -> 0..Len(q)] : x[1] <= x[2] /\ x[2] <= x[3]}} :
         q \in SeqsUpTo(MwEntries, MaxDeclared)}

\* The node with the middleware list of its descriptor.
Declaring(node, list) == [node EXCEPT !.meta.middlewares = list]

\* Nodes graphs that vary in the middleware lists declared: A holds KA with
\* one GET method, B holds KB with one.
MwTrees ==
  {[m \in Modules |->
      CASE m = "A" ->
             Declaring(WebModule("none",
                         <<Declaring(WebController("KA", "none",
                                       <<Declaring(WebMethod("KA", 1, "GET", "none", "ok", 0),
                                                   q[3])>>),
                                     q[2])>>),
                       q[1])
        [] m = "B" -> Declaring(WebModule("none",
                                  <<WebController("KB", "none", WebMethods("KB", <<"GET">>))>>),
                                q[4])
        [] OTHER -> WebModule("none", <<>>)] :
     q \in MwDeclarations}

MwInit ==
  /\ tree \in MwTrees
  /\ imports \in {[m \in Modules |-> IF m = "A" THEN i ELSE <<>>] : i \in {<<>>, <<"B">>}}
  /\ providers = [m \in Modules |-> <<>>]
  /\ DIConst
  /\ LifeIdle
  /\ GraphIdle
  /\ CliIdleApp
  /\ adapter = Capabilities
  /\ mounts = <<>>
  /\ wapp = [status |-> "none", error |-> "none", endpoints |-> {}]
  /\ served = NotServed
  /\ writes = <<>>
  /\ initiated = [status |-> "none", error |-> "none"]
  /\ mwCall = NoMwCall

MwNext ==
  \/ Initiate
  \/ LinkInitiated
  \/ \E list \in NormalizedLists : \E i \in 1..Len(list) : CallMiddleware(list[i])

SpecMw == MwInit /\ [][MwNext]_vars

\* ------------------------------------------------------------------------
\* Dependency injection: properties
\* ------------------------------------------------------------------------
Provides(m, t) == \E i \in 1..Len(providers[m]) : KindToken(providers[m][i]) = t

Range(q) == {q[i] : i \in 1..Len(q)}

\* The modules reachable from m through imports, m included.
Scope(m) ==
  {m} \cup Range(imports[m]) \cup UNION {Range(imports[x]) : x \in Range(imports[m])}

CanSupply(m, t) == \E x \in Scope(m) : Provides(x, t)

MinOf(S) == CHOOSE i \in S : \A j \in S : i <= j

RECURSIVE Supplier(_, _)
\* The provider the documented lookup order designates for resolve(t) on m:
\* the first local provider, else that of the first declared import that can
\* supply t; <<>> when nothing in scope provides t.
Supplier(m, t) ==
  IF Provides(m, t)
    THEN <<m, MinOf({i \in 1..Len(providers[m]) : KindToken(providers[m][i]) = t})>>
  ELSE LET able == {i \in 1..Len(imports[m]) : CanSupply(imports[m][i], t)}
       IN IF able = {} THEN <<>> ELSE Supplier(imports[m][MinOf(able)], t)

AllReturned == UNION {returned[m][t] : m \in Modules, t \in Tokens}

\* C1: over any sequence of resolve(t) calls on one injector, every call
\* returns the same instance and the factory that produced it ran exactly
\* once (its first and only invocation made the instance).
C1_FactoryRunsOnce ==
  \A m \in Modules, t \in Tokens :
    /\ Cardinality(returned[m][t]) <= 1
    /\ \A v \in returned[m][t] : calls[v.prov] = 1 /\ v.n = 1

C1_Witness ==
  /\ repeated
  /\ \E m \in Modules, t \in Tokens :
       \E v \in returned[m][t] : cache[v.prov[1]][t] = <<v>> /\ calls[v.prov] = 1

\* C34: on one injector every resolve(t) returns the same instance and the
\* factory that produced it ran once, also when a resolve(t) call starts
\* while the asynchronous factory of an earlier call is pending.
C34_SingletonWhenOverlapping ==
  \A m \in Modules, t \in Tokens :
    /\ Cardinality(returned[m][t]) <= 1
    /\ \A v \in returned[m][t] : calls[v.prov] = 1

\* Two resolve(t) calls on the injector of A overlapped: the factory of A's
\* provider ran twice and the calls returned two instances.
C34_FactoryRanTwice ==
  /\ inflight = <<>>
  /\ \E t \in Tokens :
       /\ Cardinality(returned["A"][t]) = 2
       /\ \A v \in returned["A"][t] : v.prov = <<"A", 1>> /\ calls[v.prov] = 2

\* C2: resolve(t) takes the value from the injector's own cache first, then
\* from its first local provider, then from the first declared import that
\* can supply t: the returned value is always the designated supplier's, and
\* once the injector holds a cached value nothing else is ever returned.
C2_LookupOrder ==
  \A m \in Modules, t \in Tokens :
    /\ \A v \in returned[m][t] : v.prov = Supplier(m, t)
    /\ cache[m][t] # NoValue => returned[m][t] \subseteq {cache[m][t][1]}

C2_Witness ==
  \E m \in Modules :
    /\ Len(imports[m]) = 2
    /\ ~Provides(m, "t")
    /\ Provides(imports[m][1], "t") /\ Provides(imports[m][2], "t")
    /\ returned[m]["t"] # {}
    /\ returned[imports[m][2]]["t"] # {}
    /\ repeated

\* C3: with no local provider but a provider reachable through the imports
\* (at any depth) resolve(t) never raises ProviderNotFoundError for t and
\* returns an imported module's value; with no provider in scope it never
\* returns and raises ProviderNotFoundError naming t.
C3_HierarchicalResolution ==
  \A m \in Modules, t \in Tokens :
    /\ (~Provides(m, t) /\ CanSupply(m, t)) =>
         /\ t \notin failed[m][t]
         /\ \A v \in returned[m][t] : v.prov[1] \in Scope(m) \ {m}
    /\ ~CanSupply(m, t) => (returned[m][t] = {} /\ failed[m][t] \subseteq {t})

C3_Witness ==
  /\ imports["A"] = <<"B">> /\ imports["B"] = <<"C">>
  /\ ~Provides("A", "t") /\ ~Provides("B", "t") /\ Provides("C", "t")
  /\ \E v \in returned["A"]["t"] : v.prov[1] = "C"
  /\ ~CanSupply("A", "d") /\ failed["A"]["d"] = {"d"}

\* C4: with several providers for one token in a module's list, the value
\* comes from the earliest one and no later one's factory is ever invoked.
C4_FirstProviderWins ==
  \A m \in Modules, t \in Tokens :
    \A i \in 1..Len(providers[m]), j \in 1..Len(providers[m]) :
      (i < j /\ KindToken(providers[m][i]) = t /\ KindToken(providers[m][j]) = t) =>
        /\ calls[<<m, j>>] = 0
        /\ \A x \in Modules : \A v \in returned[x][t] : v.prov # <<m, j>>

C4_Witness ==
  \E m \in Modules :
    /\ Len(providers[m]) >= 2
    /\ KindToken(providers[m][1]) = "t" /\ KindToken(providers[m][2]) = "t"
    /\ \E v \in returned[m]["t"] : v.prov = <<m, 1>>

C7_OneInjectorPerModule ==
  \A m \in Modules :
    /\ created[m] <= 1
    /\ Cardinality(handed[m]) <= 1
    /\ registry[m] # 0 => handed[m] = {registry[m]}

C7_Witness ==
  /\ rejected
  /\ \A m \in Modules : created[m] = 1 /\ handed[m] = {1}
\* ------------------------------------------------------------------------
\* Graph builder and compiler: properties
\* ------------------------------------------------------------------------
\* The import chain A -> B -> C -> A, every class decorated.
CyclicChain ==
  /\ imports = [m \in Modules |->
                  CASE m = "A" -> <<"B">> [] m = "B" -> <<"C">> [] OTHER -> <<"A">>]
  /\ undecorated = "none"

BuildEnded == bphase \in {"built", "failed"}

\* The path a cycle error reports (none when the error carries no path).
ReportedPath(e) == IF "path" \in DOMAIN e THEN e.path ELSE <<>>

\* The positions of c in path p.
PositionsOf(p, c) == {i \in DOMAIN p : p[i] = c}

\* C8: for the import chain A -> B -> C -> A, graphBuilder(A) fails with a
\* cycle error whose reported path contains A, B, C in traversal order.
C8_CycleRejected ==
  (CyclicChain /\ BuildEnded) =>
    /\ bphase = "failed"
    /\ buildError.name = "CircularDependencyError"
    /\ \E a \in PositionsOf(ReportedPath(buildError), "A") :
       \E b \in PositionsOf(ReportedPath(buildError), "B") :
       \E c \in PositionsOf(ReportedPath(buildError), "C") : a < b /\ b < c

\* The import sites of module class c among the modules built: <<node, index>>.
ImportSites(c) ==
  {s \in (DOMAIN nodes) \X (1..MaxImports) :
     /\ s[2] <= Len(imports[nodes[s[1]].ctr])
     /\ imports[nodes[s[1]].ctr][s[2]] = c}

NodesOf(c) == {i \in DOMAIN nodes : nodes[i].ctr = c}
CompiledOf(c) == {i \in DOMAIN compiled : compiled[i].ctr = c}

\* C9: a module class referenced more than once in the import graph gets
\* exactly one ModuleNode from graphBuilder and exactly one compiled module
\* from the compiler, and every import site holds that one object.
C9_IdempotentModuleIdentity ==
  /\ \A c \in Modules : Cardinality(NodesOf(c)) <= 1
  /\ \A c \in Modules : Cardinality(CompiledOf(c)) <= 1
  /\ bphase = "built" =>
       \A c \in Modules : \A s \in ImportSites(c) :
         /\ Cardinality(NodesOf(c)) = 1
         /\ Len(nodes[s[1]].imports) = Len(imports[nodes[s[1]].ctr])
         /\ nodes[s[1]].imports[s[2]] \in NodesOf(c)
  /\ cphase = "compiled" =>
       \A c \in Modules : \A s \in ImportSites(c) :
         /\ Cardinality(CompiledOf(c)) = 1
         /\ \A o \in CompiledOf(nodes[s[1]].ctr) :
              /\ Len(compiled[o].imports) = Len(imports[compiled[o].ctr])
              /\ compiled[o].imports[s[2]] \in CompiledOf(c)

\* A compiled graph in which one module is imported over two paths and
\* another module lists one import twice.
C9_Witness ==
  /\ cphase = "compiled"
  /\ \E c \in Modules : \E s, t \in ImportSites(c) : s[1] # t[1]
  /\ \E c \in Modules : \E s, t \in ImportSites(c) : s[1] = t[1] /\ s[2] # t[2]

\* ------------------------------------------------------------------------
\* Command line linker: properties
\* ------------------------------------------------------------------------
\* The module class whose controller is cls.
ModuleOf(cls) ==
  CHOOSE m \in Modules :
    \E c \in DOMAIN tree[m].controllers : tree[m].controllers[c].cls = cls

ControllerOf(cls) ==
  LET m == ModuleOf(cls)
  IN tree[m].controllers[CHOOSE c \in DOMAIN tree[m].controllers :
                           tree[m].controllers[c].cls = cls]

\* The handler the dispatched command is bound to.
DispatchedHandler ==
  IF dispatched.command = "main" THEN app.main ELSE app.commands[dispatched.command]

\* The calls of a middleware list, in declared order.
CallsOf(mws) == [n \in DOMAIN mws |-> CallOf("middleware", mws[n])]

\* The middlewares in scope of the dispatched endpoint, by scope.
ScopedMiddlewares ==
  LET t == DispatchedHandler.handle
  IN <<tree[ModuleOf(t.cls)].middlewares,
       ControllerOf(t.cls).middlewares,
       ControllerOf(t.cls).methods[t.method].middlewares>>

AllCallNext(mws) == \A n \in DOMAIN mws : mws[n].kind = "pass"

IsMwOrHandler(c) == c.call \in {"middleware", "handler"}

\* C10: on dispatch of an endpoint whose middlewares all call next(), the
\* calls run in the order module middlewares, controller middlewares, method
\* middlewares (each list in declared order), then the handler, each once.
C10_MiddlewareOrder ==
  (/\ dispatched.command # "none"
   /\ \A k \in 1..3 : AllCallNext(ScopedMiddlewares[k])) =>
    SelectSeq(callLog, IsMwOrHandler) =
      CallsOf(ScopedMiddlewares[1]) \o CallsOf(ScopedMiddlewares[2])
        \o CallsOf(ScopedMiddlewares[3])
        \o <<CallOf("handler", DispatchedHandler.handle)>>

\* One middleware per scope, each calling next(): the call order is
\* [m1, m2, m3, handler].
C10_Witness ==
  /\ dispatched.command # "none"
  /\ \A k \in 1..3 : Len(ScopedMiddlewares[k]) = 1 /\ AllCallNext(ScopedMiddlewares[k])
  /\ Len(callLog) = 4
  /\ callLog[1].scope = "module" /\ callLog[1].call = "middleware"
  /\ callLog[2].scope = "controller" /\ callLog[2].call = "middleware"
  /\ callLog[3].scope = "method" /\ callLog[3].call = "middleware"
  /\ callLog[4].call = "handler"

\* Whether the endpoint's method was called during the dispatch.
HandlerCalled == \E i \in DOMAIN callLog : callLog[i].call = "handler"

IsErrorHandlerCall(c) == c.call = "errorHandler"

\* The scopes around the dispatched endpoint that define an error handler,
\* as <<scope, class, method>>, nearest first.
DefinedErrorHandlers ==
  LET t == DispatchedHandler.handle
      cc == ControllerOf(t.cls)
      all == <<[scope |-> "method", cls |-> t.cls, method |-> t.method,
                kind |-> cc.methods[t.method].errorHandler],
               [scope |-> "controller", cls |-> t.cls, method |-> 0,
                kind |-> cc.errorHandler],
               [scope |-> "module", cls |-> ModuleOf(t.cls), method |-> 0,
                kind |-> tree[ModuleOf(t.cls)].errorHandler]>>
      defined(h) == h.kind # "none"
  IN SelectSeq(all, defined)

\* C11: when the endpoint's method throws, the error goes to exactly one error
\* handler, the nearest defined one (method, else controller, else module),
\* and to no outer one; with none defined the dispatch rejects to its caller.
C11_NearestErrorHandler ==
  (/\ dispatched.command # "none"
   /\ HandlerCalled
   /\ DispatchedHandler.handle.kind = "throw") =>
    IF DefinedErrorHandlers = <<>>
      THEN /\ SelectSeq(callLog, IsErrorHandlerCall) = <<>>
           /\ dispatched.out = "rejected"
      ELSE /\ SelectSeq(callLog, IsErrorHandlerCall) =
                <<CallOf("errorHandler", DefinedErrorHandlers[1])>>
           /\ dispatched.out = "resolved"

\* A method with its own error handler inside a controller and a module that
\* define theirs too throws, and only the method's handler is called.
C11_Witness ==
  /\ dispatched.command # "none"
  /\ HandlerCalled
  /\ DispatchedHandler.handle.kind = "throw"
  /\ Len(DefinedErrorHandlers) = 3
  /\ \E i \in DOMAIN callLog :
       callLog[i].call = "errorHandler" /\ callLog[i].scope = "method"

\* ------------------------------------------------------------------------
\* Command line linker, trees of commands: properties
\* ------------------------------------------------------------------------
RECURSIVE Flatten(_)
\* The concatenation of a sequence of sequences.
Flatten(ss) == IF ss = <<>> THEN <<>> ELSE Head(ss) \o Flatten(Tail(ss))

RECURSIVE VisitOrder(_)
\* The modules of the tree below m in depth-first order, a module imported
\* over several paths once per path.
VisitOrder(m) ==
  <<m>> \o Flatten([i \in DOMAIN imports[m] |-> VisitOrder(imports[m][i])])

\* The command declarations of module m, controllers and methods in order.
DeclarationsOf(m) ==
  LET isCommand(e) == e.command # "none"
  IN Flatten([c \in DOMAIN tree[m].controllers |->
       SelectSeq([k \in DOMAIN tree[m].controllers[c].methods |->
                    [cls |-> tree[m].controllers[c].cls, method |-> k,
                     command |-> tree[m].controllers[c].methods[k].command]],
                 isCommand)])

\* Every command declaration of the tree, in the order the tree is walked.
Declared == Flatten([i \in DOMAIN VisitOrder(Root) |-> DeclarationsOf(VisitOrder(Root)[i])])

DeclaresMain == \E i \in DOMAIN Declared : Declared[i].command = "main"
DeclaresNamed == \E i \in DOMAIN Declared : Declared[i].command # "main"

ConflictErrors == {"Cannot have 'main' command when subcommands exist",
                   "Cannot have subcommands when 'main' command exists"}

LinkEnded == app.status # "none"

\* The declarations of command c, as positions in Declared.
SitesOf(c) == {i \in DOMAIN Declared : Declared[i].command = c}

DeclaredTwice ==
  {c \in Commands \ {"main"} :
     \E i, j \in SitesOf(c) : Declared[i].cls # Declared[j].cls}

\* The first declaration of command c met when the tree is walked.
FirstSite(c) == CHOOSE i \in SitesOf(c) : \A j \in SitesOf(c) : i <= j

MethodAt(site) ==
  LET m == CHOOSE m \in Modules :
             \E c \in DOMAIN tree[m].controllers : tree[m].controllers[c].cls = site.cls
      c == CHOOSE c \in DOMAIN tree[m].controllers : tree[m].controllers[c].cls = site.cls
  IN tree[m].controllers[c].methods[site.method]

\* A request was made for a declared method of an "-async" streaming kind.
AsyncServed ==
  /\ served.out # "none"
  /\ MethodAt(served.site).meta.type \in AsyncStreamTypes

\* The write call of each "-async" kind.
KindWrite(type) ==
  CASE type = "STREAM_ASYNC" -> "write"
    [] type = "STREAM_TEXT_ASYNC" -> "writeln"
    [] type = "SSE_ASYNC" -> "writeSSE"

WriteCalls == SelectSeq(writes, LAMBDA w : w.op # "next")

\* C14: a request to an "-async" streaming endpoint whose handler returns an
\* async generator yielding n values makes exactly n write calls of the
\* kind's channel, one per value in yield order, each value pulled only
\* after the write before it.
C14_AsyncWritesInOrder ==
  (AsyncServed /\ MethodAt(served.site).handle.kind = "gen") =>
     LET cm == MethodAt(served.site)
         n == cm.handle.yields
     IN /\ WriteCalls = [j \in 1..n |-> [op |-> KindWrite(cm.meta.type), value |-> j]]
        /\ \A j \in 1..n : /\ writes[2 * j - 1] = [op |-> "next", value |-> j]
                            /\ writes[2 * j].op # "next"

\* The error linkAsyncStream throws for a return value without
\* Symbol.asyncIterator.
AsyncGeneratorError == "not return an async generator"

\* C15: a request to an "-async" streaming endpoint whose handler returns a
\* value that is not async-iterable fails, after a link that succeeded, with
\* the async-generator error and without a write call; the error goes to
\* the method's error handler, or is rethrown when there is none.
C15_NotAsyncIterableFails ==
  (AsyncServed /\ MethodAt(served.site).handle.kind \in {"ok", "undefined"}) =>
     /\ wapp.status = "linked"
     /\ served.error = AsyncGeneratorError
     /\ WriteCalls = <<>>
     /\ IF MethodAt(served.site).errorHandler = "none"
          THEN served.out = "rejected" /\ served.handledBy = "none"
          ELSE served.out = "responded" /\ served.handledBy = "method"

\* The methods declared in the tree handed to link.
WebDeclared == {MethodAt(site) : site \in WebSites}

\* The adapter capability an endpoint kind needs, "none" for the kinds every
\* adapter serves.
Needs(type) ==
  CASE type \in {"STREAM", "STREAM_ASYNC"} -> "stream"
    [] type \in {"STREAM_TEXT", "STREAM_TEXT_ASYNC"} -> "text"
    [] type \in {"SSE", "SSE_ASYNC"} -> "sse"
    [] OTHER -> "none"

UnsupportedKindErrors ==
  {"Adapter does not support stream endpoints",
   "Adapter does not support text stream endpoints",
   "Adapter does not support SSE endpoints"}

\* Some method of the tree declares a kind the adapter has no capability for.
DeclaresUnsupported ==
  \E cm \in WebDeclared : Needs(cm.meta.type) \in Capabilities \ adapter

\* C16: when a method anywhere in the tree declares an endpoint kind whose
\* capability the adapter lacks, link fails with the unsupported-kind error
\* and returns no linked app, so no request is ever served.
C16_UnsupportedKindFailsLink ==
  (wapp.status # "none" /\ DeclaresUnsupported) =>
     /\ wapp.status = "failed"
     /\ wapp.error \in UnsupportedKindErrors
     /\ wapp.endpoints = {}
     /\ served.out = "none"

\* The controller classes of the modules below m, m included.
ControllersBelow(m) ==
  LET below(S) == S \cup UNION {{imports[x][i] : i \in DOMAIN imports[x]} : x \in S}
  IN UNION {{tree[x].controllers[c].cls : c \in DOMAIN tree[x].controllers} :
              x \in below(below({m}))}

\* An endpoint of one of the classes was mounted before call i.
MountedBefore(i, classes) ==
  \E j \in 1..(i - 1) : mounts[j].op = "mountEndpoint" /\ mounts[j].a \in classes

\* C17: the web Linker passes a controller to mountController only after
\* mounting an endpoint on it, and a module to mountFeature only after
\* mounting an endpoint on a controller of that module or of its imports.
C17_EmptyBranchesPruned ==
  \A i \in DOMAIN mounts :
     /\ mounts[i].op = "mountController" => MountedBefore(i, {mounts[i].a})
     /\ mounts[i].op = "mountFeature" => MountedBefore(i, ControllersBelow(mounts[i].a))

\* A linked tree with a mounted controller next to a controller whose only
\* method was skipped and an imported module without methods, neither of
\* them mounted.
C17_Witness ==
  /\ wapp.status = "linked"
  /\ \E i \in DOMAIN mounts : mounts[i].op = "mountController" /\ mounts[i].a = "KA2"
  /\ Len(tree["A"].controllers[1].methods) = 1
  /\ \A i \in DOMAIN mounts : mounts[i].op = "mountController" => mounts[i].a # "KA"
  /\ imports["A"] = <<"B">>
  /\ \E i \in DOMAIN mounts : mounts[i].op = "createFeature" /\ mounts[i].a = "B"
  /\ \A i \in DOMAIN mounts : mounts[i].op # "mountFeature"

\* ------------------------------------------------------------------------
\* Command line application: properties
\* ------------------------------------------------------------------------
\* run(argv) was called and has ended.
RunEnded == ran.out # "none"

\* The linked app exposes named sub-commands.
ExposesSubCommands ==
  app.status = "linked" /\ \E c \in Commands \ {"main"} : app.commands[c].bound

\* The linked app exposes a main command.
ExposesMain == app.status = "linked" /\ app.main.bound

\* The token names a command the linked app was given by a declaration.
Recognized(token) == token \in Commands \ {"main"} /\ app.commands[token].bound

\* argv holds --help or -h.
HelpFlagGiven == \E i \in DOMAIN ran.argv : ran.argv[i] \in {"--help", "-h"}

\* The positional tokens of an argv without flags, after the first.
RestOf(argv) == [i \in 1..(Len(argv) - 1) |-> argv[i + 1]]

\* C18: run(argv) of an app with named sub-commands, for an argv of
\* positional tokens: the command named by the first token is the one
\* dispatched and gets the other tokens as its positionals; with no token the
\* run fails with MissingCommandError, with an unrecognized first token with
\* NotFoundError, and in both cases nothing is called.
C18_FirstPositionalSelects ==
  (RunEnded /\ ExposesSubCommands /\ ~HelpFlagGiven) =>
     IF ran.argv = <<>>
       THEN ran.error = "MissingCommandError" /\ ran.invoked = <<>> /\ callLog = <<>>
     ELSE IF Recognized(ran.argv[1])
       THEN /\ ran.invoked = <<ran.argv[1]>>
            /\ [i \in DOMAIN ran.forwarded |-> ran.forwarded[i].text] = RestOf(ran.argv)
     ELSE ran.error = "NotFoundError" /\ ran.invoked = <<>> /\ callLog = <<>>

\* The help text run is to print: of a main app the main command's help, or
\* the controller's when the main command has none; of a sub-command app the
\* global help when argv names no command, else the named command's help.
HelpToPrint ==
  LET positionals == parseArgs(ran.argv).positionals
  IN IF ExposesMain
       THEN IF app.help["main"] \in {"unset", ""} THEN app.helpKey ELSE app.help["main"]
     ELSE IF positionals # <<>> /\ Recognized(positionals[1].text)
       THEN app.help[positionals[1].text]
     ELSE app.helpKey

\* C19: a run whose argv holds --help or -h calls no command handler and no
\* middleware, whether it prints help or ends in a missing-help error, and
\* what it prints is the help text of the case.
C19_HelpNeverInvokes ==
  (RunEnded /\ HelpFlagGiven) =>
     /\ ran.invoked = <<>>
     /\ callLog = <<>>
     /\ ran.printed # "none" => ran.printed = HelpToPrint

\* The calls of command methods the run made.
HandlerCalls == SelectSeq(callLog, LAMBDA c : c.call = "handler")

\* C20: run(argv) of an app with a main command, for an argv without a help
\* flag, calls the main handler exactly once whatever positional tokens argv
\* holds; the tokens all reach the handler as positionals and none is looked
\* up as a command name.
C20_MainAlwaysRuns ==
  (RunEnded /\ ExposesMain /\ ~HelpFlagGiven) =>
     /\ ran.invoked = <<"main">>
     /\ Len(HandlerCalls) = 1
     /\ HandlerCalls[1].cls = app.main.handle.cls
     /\ HandlerCalls[1].method = app.main.handle.method
     /\ [i \in DOMAIN ran.forwarded |-> ran.forwarded[i].text] = ran.argv
     /\ ran.error \notin {"MissingCommandError", "NotFoundError"}

\* A main app run with three leading positionals, one a command-like name,
\* one an inherited key and one a numeral: the main handler was called.
C20_Witness ==
  /\ RunEnded
  /\ ExposesMain
  /\ ran.argv = <<"x", "toString", "0">>
  /\ ran.invoked = <<"main">>
  /\ Len(HandlerCalls) = 1

\* ------------------------------------------------------------------------
\* Application life cycle: properties
\* ------------------------------------------------------------------------
\* The events of one kind logged during the dispatch of a hook.
EventsIn(phase, evs) ==
  SelectSeq(life.log, LAMBDA e : e.phase = phase /\ e.ev \in evs)

\* The instances whose hook was called during the dispatch, in call order.
CallsIn(phase) ==
  LET called == EventsIn(phase, {"call"})
  IN [j \in DOMAIN called |-> called[j].target]

\* The modules of the compiled tree in depth-first pre-order, imports in
\* declared order, that implement the hooks.
HookOrder ==
  SelectSeq(VisitOrder(Root), LAMBDA m : instances.modules[m] # "none")

IsPrefix(a, b) == Len(a) <= Len(b) /\ a = SubSeq(b, 1, Len(a))

\* The phases a create that got past the dispatch of the hook is in.
PhasesAfter(phase) ==
  CASE phase = "onModuleInit" -> {"onModuleActivate", "created", "onModuleShutdown", "done"}
    [] phase = "onModuleActivate" -> {"created", "onModuleShutdown", "done"}
    [] OTHER -> {"done"}

\* C21: every hook dispatch calls the hooks of the modules in depth-first
\* pre-order (a module before its imports, imports in declared order), all
\* of them once the dispatch returned, and calls a hook only after the one
\* called before it has settled: at most one hook is in flight.
C21_HooksPreOrderSequential ==
  /\ Cardinality(life.inflight) <= 1
  /\ \A phase \in Hooks :
       /\ IsPrefix(CallsIn(phase), HookOrder)
       /\ life.phase \in PhasesAfter(phase) => CallsIn(phase) = HookOrder
       /\ LET evs == EventsIn(phase, {"call", "settle"})
          IN \A j \in DOMAIN evs :
               /\ evs[j].ev = (IF j % 2 = 1 THEN "call" ELSE "settle")
               /\ j % 2 = 0 => evs[j].target = evs[j - 1].target

\* Root A imports B and C and B imports C, every module with the hooks: the
\* shutdown dispatch has called A, B, C (below B) and C (below A).
C21_Witness ==
  /\ life.phase = "done"
  /\ CallsIn("onModuleInit") = <<"A", "B", "C", "C">>
  /\ CallsIn("onModuleShutdown") = <<"A", "B", "C", "C">>

\* The module instances and the controller instances of the compiled tree
\* that implement the hooks, by class.
Implementers ==
  LET reached == Range(VisitOrder(Root))
  IN {m \in reached : instances.modules[m] # "none"}
       \cup UNION {{tree[m].controllers[c].cls : c \in DOMAIN tree[m].controllers} :
                     m \in {x \in reached : instances.controllers[x] # "none"}}

\* C22: once a hook dispatch has returned, every module instance and every
\* controller instance of the compiled tree that implements the hook had it
\* called.
C22_ControllersReceiveHooks ==
  \A phase \in Hooks :
     life.phase \in PhasesAfter(phase) => Implementers \subseteq Range(CallsIn(phase))

\* The modules reached from the root over more than one import path.
SharedModules ==
  {m \in Modules :
     Cardinality({i \in DOMAIN VisitOrder(Root) : VisitOrder(Root)[i] = m}) >= 2}

\* How many times the hook of the module instance was called during the
\* dispatch.
TimesCalled(phase, m) ==
  Len(SelectSeq(CallsIn(phase), LAMBDA target : target = m))

\* C36: a lifecycle dispatch invokes the hook of each distinct module at most
\* once, and exactly once when the dispatch returned, also for a module
\* reachable over several import paths or listed more than once.
C36_HookOncePerModule ==
  \A phase \in Hooks : \A m \in Modules :
     /\ TimesCalled(phase, m) <= 1
     /\ (life.phase \in PhasesAfter(phase) /\ m \in Range(HookOrder)) =>
          TimesCalled(phase, m) = 1

\* In a tree where no module is reached twice, every hook is called once.
C36_OnceWithoutSharedModule ==
  SharedModules = {} =>
    \A phase \in Hooks : \A m \in Modules :
       /\ TimesCalled(phase, m) <= 1
       /\ (life.phase \in PhasesAfter(phase) /\ m \in Range(HookOrder)) =>
            TimesCalled(phase, m) = 1

\* Root A lists B twice: the activate dispatch called the hook of B twice.
C36_CalledPerListing ==
  /\ imports["A"] = <<"B", "B">>
  /\ life.phase = "created"
  /\ TimesCalled("onModuleActivate", "B") = 2

\* The positions in the event log of the events of the given kinds.
EventAt(evs) == {j \in DOMAIN life.log : life.log[j].ev \in evs}

HookEventAt(phase) ==
  {j \in DOMAIN life.log :
     life.log[j].phase = phase /\ life.log[j].ev \in {"call", "settle"}}

\* C23: Application.create compiles, then dispatches onModuleInit, then
\* links, then dispatches onModuleActivate: every onModuleInit hook has
\* settled before link, an onModuleActivate hook is called only after link
\* returned the linked app, and a create whose build, compile or link failed
\* rejects without an application object and without an onModuleActivate
\* call.
C23_CreatePhasesInOrder ==
  /\ \A i \in HookEventAt("onModuleInit") :
       /\ \A c \in EventAt({"compiled"}) : c < i
       /\ \A l \in EventAt({"linked"}) : i < l
  /\ EventAt({"linked"}) # {} =>
       Len(EventsIn("onModuleInit", {"settle"})) = Len(CallsIn("onModuleInit"))
  /\ \A a \in HookEventAt("onModuleActivate") :
       /\ app.status = "linked"
       /\ \E l \in EventAt({"linked"}) : l < a
  /\ \A r \in EventAt({"created"}) : \A a \in HookEventAt("onModuleActivate") : a < r
  /\ (defect # "none" \/ app.status = "failed") =>
       /\ life.phase \in {"idle", "rejected"}
       /\ EventAt({"created"}) = {}
       /\ HookEventAt("onModuleActivate") = {}
  /\ life.phase \in {"created", "onModuleShutdown", "done"} =>
       defect = "none" /\ app.status = "linked"

\* A create that returned the application after calling onModuleInit and
\* onModuleActivate hooks.
C23_Witness ==
  /\ life.phase = "created"
  /\ Len(CallsIn("onModuleInit")) >= 2
  /\ Len(CallsIn("onModuleActivate")) >= 2

\* The adapter was asked to mount the endpoint of the method at the site.
EndpointMounted(site) ==
  \E i \in 1..Len(mounts) :
    /\ mounts[i].op = "mountEndpoint"
    /\ mounts[i].a = site.cls
    /\ mounts[i].k = site.method

\* The declared methods of a streaming kind.
StreamingSites ==
  {site \in WebSites : MethodAt(site).meta.type \in StreamTypes \cup AsyncStreamTypes}

\* C26: every streaming kind (STREAM, STREAM_TEXT, SSE, STREAM_ASYNC,
\* STREAM_TEXT_ASYNC, SSE_ASYNC) is recognized by the Linker's kind dispatch:
\* on an adapter that has the capability of every kind declared, link mounts
\* the endpoint of every streaming method and skips none.
C26_StreamingKindsMounted ==
  (wapp.status # "none" /\ ~DeclaresUnsupported) =>
     \A site \in StreamingSites : EndpointMounted(site)

\* The same for the streaming kinds other than STREAM_TEXT_ASYNC.
C26_OtherStreamingKindsMounted ==
  (wapp.status # "none" /\ ~DeclaresUnsupported) =>
     \A site \in StreamingSites :
        MethodAt(site).meta.type # "STREAM_TEXT_ASYNC" => EndpointMounted(site)

\* A link mounted an endpoint of each streaming kind but STREAM_TEXT_ASYNC.
C26_StreamingMounted ==
  /\ wapp.status = "linked"
  /\ \E site \in StreamingSites : EndpointMounted(site)

\* The method a request was made for was called, and is of one of the types.
CalledOf(types) ==
  /\ served.called
  /\ MethodAt(served.site).meta.type \in types

\* The arguments of the call start with the declared ones, in order, and end
\* with the given ones.
CalledWith(rest) ==
  LET n == MethodAt(served.site).meta.args
  IN /\ Len(served.args) = n + Len(rest)
     /\ \A i \in 1..n : served.args[i] = Arg("declared", i)
     /\ \A i \in 1..Len(rest) : served.args[n + i] = Arg(rest[i], 0)

C27_StreamWitness ==
  /\ CalledOf({"SSE"})
  /\ MethodAt(served.site).meta.args = MaxArgs
  /\ Len(served.args) = MaxArgs + 2

\* A streaming method without @Args is never called: its request fails on
\* the missing argument factories.
C27_NoArgsNeverCalled ==
  (served.out \notin {"none", "not found"}
   /\ MethodAt(served.site).meta.args = NoArgs)
  => ~served.called /\ served.error = "TypeError"

\* The mountEndpoint calls made for methods of the given types.
MountCallsOf(types) ==
  {i \in 1..Len(mounts) :
     /\ mounts[i].op = "mountEndpoint"
     /\ MethodAt([cls |-> mounts[i].a, method |-> mounts[i].k]).meta.type \in types}

\* C28: a streaming endpoint is mounted under the HTTP verb given by its
\* decorator's method parameter (GET by default): the verb the Linker passes
\* to mountEndpoint is an HTTP verb, never the endpoint kind.
C28_StreamingMountedUnderVerb ==
  \A i \in MountCallsOf(StreamTypes \cup AsyncStreamTypes) :
    /\ mounts[i].type \in HttpTypes
    /\ mounts[i].type =
         MethodAt([cls |-> mounts[i].a, method |-> mounts[i].k]).meta.method

\* The endpoints of the plain HTTP kinds are mounted under their verb.
C28_HttpMountedUnderVerb ==
  \A i \in MountCallsOf(HttpTypes) : mounts[i].type \in HttpTypes

\* A streaming endpoint declared with the verb POST was mounted.
C28_StreamingMounted ==
  \E i \in MountCallsOf(StreamTypes \cup AsyncStreamTypes) :
    MethodAt([cls |-> mounts[i].a, method |-> mounts[i].k]).meta.method = "POST"

\* The distinct methods of the tree that declare a command.
DeclaringMethods == {Declared[i] : i \in DOMAIN Declared}

\* No two distinct methods declare the same command, and the tree does not
\* mix a main command with named ones.
NoConflictDeclared ==
  /\ \A d, e \in DeclaringMethods : d.command = e.command => d = e
  /\ ~(DeclaresMain /\ DeclaresNamed)

\* A module reached over more than one import path declares a command.
SharedDeclares(names) ==
  \E m \in SharedModules : \E i \in DOMAIN DeclarationsOf(m) :
    DeclarationsOf(m)[i].command \in names

\* The handler bound for a command, the main command included.
BoundFor(c) == IF c = "main" THEN app.main ELSE app.commands[c]

\* Every declared command is bound to the method that declares it.
AllBound ==
  \A d \in DeclaringMethods :
    /\ BoundFor(d.command).bound
    /\ BoundFor(d.command).handle.cls = d.cls
    /\ BoundFor(d.command).handle.method = d.method

\* C32: linking a tree in which a command-declaring module is reachable over
\* more than one import path succeeds and binds each command of that module
\* once; the shared module is not reported as a duplicate of itself.
C32_SharedModuleLinks ==
  (LinkEnded /\ SharedDeclares(Commands) /\ NoConflictDeclared) =>
    (app.status = "linked" /\ AllBound)

\* The same for a shared module that declares the main command only.
C32_SharedMainLinks ==
  (LinkEnded /\ SharedDeclares({"main"}) /\ NoConflictDeclared) =>
    (app.status = "linked" /\ AllBound)

\* Link failed with the duplicate error on a tree without conflicting
\* declarations.
C32_SharedReported ==
  /\ app.status = "failed"
  /\ app.error = "already exists"
  /\ NoConflictDeclared

\* The methods that declare the main command.
MainMethods == {d \in DeclaringMethods : d.command = "main"}

\* C37: link binds at most one method to the main command: a second method
\* declaring "main" anywhere in the tree makes link fail with a duplicate
\* error, and the later declaration never replaces the earlier one.
C37_SecondMainRejected ==
  (LinkEnded /\ Cardinality(MainMethods) >= 2) =>
    (app.status = "failed" /\ app.error = "already exists" /\ app.command = "main")

\* Link ended on a tree with two methods declaring main, and the main command
\* is bound to the one met last.
C37_MainReplaced ==
  /\ app.status = "linked"
  /\ Cardinality(MainMethods) >= 2
  /\ \E i \in SitesOf("main") :
       /\ \A j \in SitesOf("main") : j <= i
       /\ app.main.handle.cls = Declared[i].cls
       /\ app.main.handle.method = Declared[i].method

\* A tree with one method declaring main links and binds it.
C37_OneMainBound ==
  (app.status = "linked" /\ Cardinality(MainMethods) = 1) =>
    \E d \in MainMethods :
      app.main.bound /\ app.main.handle.cls = d.cls /\ app.main.handle.method = d.method

\* The error command selection raised in the run: none was named, or the
\* one named is not a command of the app.
SelectionErrors == {"MissingCommandError", "NotFoundError"}

\* C39 as stated: with an error handler on the root module, an error raised
\* by command selection is passed to the handler once and run resolves
\* without dispatching a command; without one, run rejects with the error.
C39_SelectionErrorHandled ==
  (RunEnded /\ ran.error \in SelectionErrors) =>
     /\ ran.invoked = <<>>
     /\ callLog = <<>>
     /\ IF tree[Root].errorHandler # "none"
          THEN ran.handled = <<ran.error>> /\ ran.out = "resolved"
          ELSE ran.handled = <<>> /\ ran.out = "rejected" /\ ran.rejection = ran.error

\* C39: with an error handler on the root module, an error raised by command
\* selection is passed to the handler once and no command is dispatched; run
\* resolves when the handler returns and rejects with the handler's error
\* when the handler throws. Without a handler run rejects with the error.
C39_SelectionErrorHandledOnce ==
  (RunEnded /\ ran.error \in SelectionErrors) =>
     /\ ran.invoked = <<>>
     /\ callLog = <<>>
     /\ ~ran.shutdown
     /\ CASE tree[Root].errorHandler = "none" ->
               ran.handled = <<>> /\ ran.out = "rejected" /\ ran.rejection = ran.error
          [] tree[Root].errorHandler = "throw" ->
               /\ ran.handled = <<ran.error>>
               /\ ran.out = "rejected"
               /\ ran.rejection = "error handler error"
          [] OTHER ->
               ran.handled = <<ran.error>> /\ ran.out = "resolved" /\ ran.rejection = "none"

\* A run that named no command and a run that named an unknown one, each
\* resolved by the root module's error handler.
C39_Witness ==
  /\ RunEnded
  /\ tree[Root].errorHandler = "ok"
  /\ ran.out = "resolved"
  /\ ran.handled \in {<<"MissingCommandError">>, <<"NotFoundError">>}
  /\ ran.argv \in {<<>>, <<"y">>}

\* C33: every run that dispatches a command handler is followed by one
\* onModuleShutdown dispatch, also when the handler or a middleware throws
\* and the error propagates out of run; a run that only prints help or fails
\* command selection dispatches no shutdown hook.
C33_ShutdownAfterEveryDispatch ==
  ran.out # "none" => (ran.shutdown <=> ran.invoked # <<>>)

\* The shutdown hooks are dispatched after a dispatch that resolved, and never
\* without a dispatch.
C33_ShutdownAfterResolvedDispatch ==
  ran.out # "none" =>
    /\ (ran.invoked # <<>> /\ ran.out = "resolved") => ran.shutdown
    /\ ran.invoked = <<>> => ~ran.shutdown

\* A run dispatched a handler that threw, without an error handler in scope.
C33_DispatchRejected ==
  /\ ran.invoked # <<>>
  /\ ran.out = "rejected"
  /\ ~ran.shutdown

\* The modules on the import path from the root to the module declaring the
\* dispatched command, root first.
ImportPath ==
  LET m == ModuleOf(DispatchedHandler.handle.cls)
  IN IF m = Root THEN <<Root>> ELSE <<Root, m>>

\* The middlewares of the modules on the import path, root's first.
PathMiddlewares ==
  IF Len(ImportPath) = 1 THEN tree[ImportPath[1]].middlewares
  ELSE tree[ImportPath[1]].middlewares \o tree[ImportPath[2]].middlewares

\* The error handlers the modules on the import path define, nearest first.
PathErrorHandlers ==
  LET all == [j \in 1..Len(ImportPath) |->
                [scope |-> "module", cls |-> ImportPath[Len(ImportPath) + 1 - j],
                 method |-> 0,
                 kind |-> tree[ImportPath[Len(ImportPath) + 1 - j]].errorHandler]]
      defined(h) == h.kind # "none"
  IN SelectSeq(all, defined)

\* The dispatch raised an error: a called middleware or the method threw.
ErrorRaised ==
  \E i \in DOMAIN callLog :
     \/ callLog[i].call = "handler" /\ DispatchedHandler.handle.kind = "throw"
     \/ /\ callLog[i].call = "middleware"
        /\ \E m \in Modules : \E n \in DOMAIN tree[m].middlewares :
              /\ callLog[i] = CallOf("middleware", tree[m].middlewares[n])
              /\ tree[m].middlewares[n].kind = "throw"

\* C38: a command declared in an imported module runs behind the middlewares
\* of every module on its import path, root's first, and an error falls back
\* to the nearest error handler among the handlers of those modules.
C38_ImportPathScopesApply ==
  dispatched.command # "none" =>
     /\ AllCallNext(PathMiddlewares) =>
          SelectSeq(callLog, IsMwOrHandler)
            = CallsOf(PathMiddlewares) \o <<CallOf("handler", DispatchedHandler.handle)>>
     /\ (ErrorRaised /\ PathErrorHandlers # <<>>) =>
          /\ dispatched.out = "resolved"
          /\ SelectSeq(callLog, IsErrorHandlerCall)
               = <<CallOf("errorHandler", PathErrorHandlers[1])>>

\* The command of the imported module runs behind the middlewares of the
\* declaring module only, and its error goes to the declaring module's error
\* handler or to none.
C38_DeclaringModuleOnly ==
  dispatched.command # "none" =>
    LET cm == tree[ModuleOf(DispatchedHandler.handle.cls)]
    IN /\ \A i \in DOMAIN callLog : callLog[i].cls # Root
       /\ AllCallNext(cm.middlewares) =>
            SelectSeq(callLog, IsMwOrHandler)
              = CallsOf(cm.middlewares) \o <<CallOf("handler", DispatchedHandler.handle)>>
       /\ (ErrorRaised /\ cm.errorHandler = "none") =>
            dispatched.out = "rejected" /\ SelectSeq(callLog, IsErrorHandlerCall) = <<>>

\* The root declares a middleware and an error handler, the imported module
\* neither: the method of the imported module's command was called without
\* the root's middleware, threw, and the dispatch rejected.
C38_RootScopesSkipped ==
  /\ dispatched.out = "rejected"
  /\ tree[Root].middlewares # <<>>
  /\ tree[Root].errorHandler # "none"
  /\ callLog = <<CallOf("handler", DispatchedHandler.handle)>>

\* What new Linker().link(cm) yields for the compiled tree: the app linked
\* by a Linker whose fields have their initial values.
FreshlyLinked ==
  LET L == apply([linker |-> [isMain |-> FALSE, containSubs |-> FALSE],
                  app |-> [EmptyApp EXCEPT !.errorHandler = tree[Root].errorHandler]],
                 Root)
  IN IF Threw(L) THEN L.app ELSE [L.app EXCEPT !.status = "linked"]

\* The commands bound in a linked app.
BoundIn(a) ==
  {c \in Commands \ {"main"} : a.commands[c].bound}
    \cup (IF a.main.bound THEN {"main"} ELSE {})

\* C40: a link call yields what a fresh Linker yields for the same compiled
\* module, whatever the same Linker linked before and however that call
\* ended: a tree declaring only main or only sub-commands links, and every
\* command bound in the app is declared by the tree of this call.
C40_LinkCarriesNoState ==
  LinkEnded =>
     /\ app = FreshlyLinked
     /\ (~(DeclaresMain /\ DeclaresNamed)
           /\ \A c \in Commands : Cardinality(SitesOf(c)) <= 1) => app.status = "linked"
     /\ app.status = "linked" =>
          BoundIn(app) = {Declared[i].command : i \in DOMAIN Declared}

\* The Linker linked a main-only module, then failed on a module declaring
\* main and a sub-command, then linked a sub-commands-only module: the third
\* app holds the sub-commands and no main.
C40_Witness ==
  /\ Len(linkedApps) = 2
  /\ linkedApps[1].app.status = "linked"
  /\ BoundIn(linkedApps[1].app) = {"main"}
  /\ linkedApps[2].app.status = "failed"
  /\ linkedApps[2].app.main.bound
  /\ app.status = "linked"
  /\ BoundIn(app) = {"x", "y"}

\* ------------------------------------------------------------------------
\* Command line linker, one dispatch through a chain: properties
\* ------------------------------------------------------------------------
\* The middleware chain of the dispatched handler.
DispatchedChain == DispatchedHandler.middlewares

\* The positions of the call log that are calls of what.
LogOf(what) == {i \in DOMAIN callLog : callLog[i].call = what}

\* The positions of the call log that call the n-th middleware of the chain.
MwCalls(n) ==
  {i \in DOMAIN callLog : callLog[i] = CallOf("middleware", DispatchedChain[n])}

\* The middlewares of the chain that were called and threw before next().
Throwers ==
  {n \in DOMAIN DispatchedChain :
     DispatchedChain[n].kind = "throw" /\ MwCalls(n) # {}}

\* No middleware after the n-th and not the handler was called; the error
\* went to the resolved error handler and the dispatch resolved, or there is
\* none and the dispatch rejected.
StoppedAt(n) ==
  /\ \A k \in DOMAIN DispatchedChain : k > n => MwCalls(k) = {}
  /\ LogOf("handler") = {}
  /\ IF DispatchedHandler.errorHandler.kind # "none"
       THEN /\ LogOf("errorHandler") # {}
            /\ \A i \in LogOf("errorHandler") :
                 callLog[i] = CallOf("errorHandler", DispatchedHandler.errorHandler)
            /\ dispatched.out = "resolved"
       ELSE /\ LogOf("errorHandler") = {}
            /\ dispatched.out = "rejected"

\* C29: if a middleware throws before calling next(), no later middleware
\* and not the handler is invoked; the error is passed to the endpoint's
\* resolved error handler if there is one, and the dispatch then resolves;
\* with none the error propagates to the caller of the dispatch.
C29_ThrowStopsChain ==
  dispatched.command # "none" => \A n \in Throwers : StoppedAt(n)

\* No middleware of the chain calls next() a second time.
NoneCallsTwice == \A n \in DOMAIN DispatchedChain : DispatchedChain[n].kind # "twice"

\* The same for the chains in which no middleware calls next() twice and the
\* error handler does not throw.
C29_ThrowStopsSingleNext ==
  (/\ dispatched.command # "none"
   /\ NoneCallsTwice
   /\ DispatchedHandler.errorHandler.kind # "throw")
  => \A n \in Throwers : StoppedAt(n)

\* A middleware called through two others threw, with an error handler.
C29_Thrown ==
  /\ dispatched.command # "none"
  /\ NoneCallsTwice
  /\ MaxMws \in Throwers
  /\ DispatchedHandler.errorHandler.kind = "ok"

\* C31: within one dispatch the error handler is invoked at most once: an
\* error the error handler throws propagates to the caller of the dispatch
\* and is not fed back to the handler by the enclosing middleware frames.
C31_ErrorHandlerAtMostOnce ==
  dispatched.command # "none" =>
    /\ Cardinality(LogOf("errorHandler")) <= 1
    /\ (LogOf("errorHandler") # {} /\ DispatchedHandler.errorHandler.kind = "throw")
         => dispatched.out = "rejected"

\* The error handler is invoked at most once when it does not throw or when
\* no middleware frame is awaiting next() around the failure.
C31_OnceWithoutEnclosingFrame ==
  (/\ dispatched.command # "none"
   /\ NoneCallsTwice
   /\ \/ DispatchedHandler.errorHandler.kind # "throw"
      \/ \A n \in DOMAIN DispatchedChain : DispatchedChain[n].kind # "pass" \/ MwCalls(n) = {})
  => Cardinality(LogOf("errorHandler")) <= 1

\* A throwing error handler was invoked.
C31_ErrorHandlerThrew ==
  /\ dispatched.command # "none"
  /\ DispatchedHandler.errorHandler.kind = "throw"
  /\ LogOf("errorHandler") # {}
  /\ dispatched.out = "rejected"

\* C30: within one dispatch the handler is invoked at most once and each
\* middleware at most once, even when a middleware calls next() twice.
C30_EachAtMostOnce ==
  dispatched.command # "none" =>
    /\ Cardinality(LogOf("handler")) <= 1
    /\ \A n \in DOMAIN DispatchedChain : Cardinality(MwCalls(n)) <= 1

\* Each middleware is invoked at most once, whatever the middlewares do.
C30_MiddlewaresAtMostOnce ==
  dispatched.command # "none" =>
    \A n \in DOMAIN DispatchedChain : Cardinality(MwCalls(n)) <= 1

\* The handler is invoked at most once when no middleware calls next() twice.
C30_HandlerOnceSingleNext ==
  (dispatched.command # "none" /\ NoneCallsTwice) => Cardinality(LogOf("handler")) <= 1

\* A middleware that calls next() twice was called.
C30_TwiceCalled ==
  /\ dispatched.command # "none"
  /\ \E n \in DOMAIN DispatchedChain :
       DispatchedChain[n].kind = "twice" /\ MwCalls(n) # {}

\* ------------------------------------------------------------------------
\* Properties of middleware normalization and of the lists handed over
\* ------------------------------------------------------------------------

\* The controller of the tree that is class cls.
ControllerAt(cls) ==
  LET m == CHOOSE m \in Modules :
             \E c \in DOMAIN tree[m].controllers : tree[m].controllers[c].cls = cls
      c == CHOOSE c \in DOMAIN tree[m].controllers : tree[m].controllers[c].cls = cls
  IN tree[m].controllers[c]

\* The compiled node an adapter call was made for.
NodeOf(call) ==
  CASE call.op = "createFeature" -> tree[call.a]
    [] call.op = "createController" -> ControllerAt(call.a)
    [] OTHER -> ControllerAt(call.a).methods[call.k]

\* The adapter calls that are handed a middleware list.
HandedCalls ==
  {i \in 1..Len(mounts) :
     mounts[i].op \in {"createFeature", "createController", "mountEndpoint"}}

\* Some adapter call was made for a node that declares a middleware class.
HandedClassNode ==
  \E i \in HandedCalls :
    \E j \in 1..Len(NodeOf(mounts[i]).meta.middlewares) :
      NodeOf(mounts[i]).meta.middlewares[j].is = "class"

\* C24: every middleware list the web Linker hands to the adapter, with
\* createFeature, createController or mountEndpoint, is the normalized list
\* of the compiled node, made of plain functions only: no class of the raw
\* descriptor is handed over un-instantiated.
C24_HandedListsAreNormalized ==
  \A i \in HandedCalls :
    /\ mounts[i].middlewares = NodeOf(mounts[i]).middlewares
    /\ \A j \in 1..Len(mounts[i].middlewares) : mounts[i].middlewares[j].is = "function"

\* The lists of plain functions are handed over as the compiled node has them.
C24_FunctionListsHanded ==
  \A i \in HandedCalls :
    (\A j \in 1..Len(NodeOf(mounts[i]).meta.middlewares) :
       NodeOf(mounts[i]).meta.middlewares[j].is = "function")
    => mounts[i].middlewares = NodeOf(mounts[i]).middlewares

\* The middleware lists the descriptors of the tree declare.
DeclaredLists ==
  {tree[m].meta.middlewares : m \in Modules}
  \cup UNION {{tree[m].controllers[c].meta.middlewares :
                 c \in 1..Len(tree[m].controllers)} : m \in Modules}
  \cup UNION {UNION {{tree[m].controllers[c].methods[k].meta.middlewares :
                        k \in 1..Len(tree[m].controllers[c].methods)} :
                     c \in 1..Len(tree[m].controllers)} : m \in Modules}

\* Some node reached by initiation declares a class that implements only the
\* named guard method.
DeclaresGuard(g) ==
  \E list \in DeclaredLists : \E j \in 1..Len(list) :
    list[j].is = "class" /\ list[j].implements = {g}

\* Every entry declared is a plain function, a class with handle, or a class
\* that implements only the named guard method.
OnlyGuardRejected(g) ==
  \A list \in DeclaredLists : \A j \in 1..Len(list) :
    \/ list[j].is = "function"
    \/ list[j].is = "class" /\ list[j].implements \in {{"handle"}, {g}}

\* The middleware called was normalized from a class that implements only
\* the named guard method, and behaved as a guard: next() once when the
\* method answers true, the guard rejection and no next() when it answers false.
GuardedAs(g) ==
  (mwCall.fn.implements = {g} /\ mwCall.fn # NoFn)
  => /\ mwCall.fn.is = "function"
     /\ IF mwCall.fn.verdict
          THEN mwCall.nexts = 1 /\ mwCall.error = "none"
          ELSE mwCall.nexts = 0 /\ mwCall.error = GuardRejection

\* C25: a middleware class that implements only canActivate(ctx) is accepted
\* by compilation, and is normalized into a middleware that calls next()
\* exactly once when canActivate answers true and fails with the guard
\* rejection, without calling next(), when it answers false.
C25_CanActivateGuardAccepted ==
  /\ (initiated.status # "none" /\ DeclaresGuard("canActivate")
      /\ OnlyGuardRejected("canActivate"))
     => initiated.status = "compiled"
  /\ GuardedAs("canActivate")

\* What the initiator does accept: a class that implements only can(ctx).
C25_CanGuardAccepted ==
  /\ (initiated.status # "none" /\ DeclaresGuard("can") /\ OnlyGuardRejected("can"))
     => initiated.status = "compiled"
  /\ GuardedAs("can")

\* A guard normalized from a class with can(ctx) was called.
C25_CanGuardCalled == mwCall.fn.does = "guard"
\* ------------------------------------------------------------------------
\* Compiler, order of the resolve calls: properties
\* ------------------------------------------------------------------------
\* The resolve calls the compiler made, in call order.
ResolveCalls == SelectSeq(instLog, LAMBDA e : e.ev = "call")

RECURSIVE InitiateOrder(_, _)
RECURSIVE InitiateOrderOfImports(_, _, _)
\* The resolve calls of initiateModule for module class m after the calls in
\* W.calls were made and the modules in W.done were initiated: none for a
\* module initiated before, else the module, its controllers in declared
\* order, then what its imports add in declared order.
InitiateOrder(m, W) ==
  IF m \in W.done THEN W
  ELSE LET own == <<Resolving("call", "module", m)>>
                    \o [k \in DOMAIN Controllers(m) |->
                          Resolving("call", "controller", Controllers(m)[k])]
           V == InitiateOrderOfImports(m, 1, [W EXCEPT !.calls = @ \o own])
       IN [V EXCEPT !.done = @ \cup {m}]

InitiateOrderOfImports(m, i, W) ==
  IF i > Len(imports[m]) THEN W
  ELSE InitiateOrderOfImports(m, i + 1, InitiateOrder(imports[m][i], W))

\* C35: during compile no two resolve calls are in flight at once, every
\* call is made after the one before it settled, and the calls are made in
\* the one order the graph fixes: per module the module instance, then its
\* controllers in declared order, then its imports in declared order.
C35_ResolvesOneAtATime ==
  /\ \A j \in DOMAIN instLog :
       /\ instLog[j].ev = (IF j % 2 = 1 THEN "call" ELSE "settle")
       /\ j % 2 = 0 => /\ instLog[j].kind = instLog[j - 1].kind
                       /\ instLog[j].cls = instLog[j - 1].cls
  /\ cphase # "idle" =>
       LET expected == InitiateOrder(Root, [calls |-> <<>>, done |-> {}]).calls
       IN /\ IsPrefix(ResolveCalls, expected)
          /\ cphase = "compiled" => ResolveCalls = expected

\* The compile of a diamond: A imports B and C, B imports C, and the modules
\* and controllers were resolved one after the other, C once.
C35_Witness ==
  /\ cphase = "compiled"
  /\ imports["A"] = <<"B", "C">>
  /\ imports["B"] = <<"C">>
  /\ [j \in DOMAIN ResolveCalls |-> ResolveCalls[j].cls] = <<"A", "KA", "B", "KB", "C">>
  /\ Len(instLog) = 2 * Len(ResolveCalls)

====
